---- MODULE Spec2Model ----
(***************************************************************************)
(* Semantic-search browser extension: the background script (confidential  *)
(* site filter, indexPage / processPageContent, the test-data index kept   *)
(* in faissIndex + urlToDocMap and persisted in chrome.storage.local) and  *)
(* the vector index library (createIndex / addWithIds / search /           *)
(* serialize / deserializeIndex).                                          *)
(*                                                                         *)
(* Strings are sequences of one-character strings.  JavaScript runs each   *)
(* callback to completion: an action is the code between two suspension    *)
(* points (a fetch, a chrome.storage or chrome.tabs callback, a timer).    *)
(* An await of an already settled value resumes in the same microtask      *)
(* checkpoint, before any other callback, and is not a suspension point.   *)
(***************************************************************************)
EXTENDS Integers, Sequences, FiniteSets, TLC

VARIABLES
  \* ---- background script globals
  confidentialSites,   \* let confidentialSites = []
  faissIndex,          \* let faissIndex = null : [open, ntotal]
  urlToDocMap,         \* let urlToDocMap = {}  : id -> [url]
  isInitialized,       \* let isInitialized = false
  indexingInProgress,  \* const indexingInProgress = new Set() : <<url, status>>
  \* ---- faiss-wasm module state (shared by every index object)
  nextId, vectors, dimensions,
  \* ---- chrome.storage.local
  stSites,             \* key confidentialSites : <<>> absent, <<list>> present
  stIndex,             \* keys faissIndexData + urlToDocMap, written together
  sitesRead,           \* what the storage.get calls of loadConfidentialSites
                       \* read, oldest first, their callbacks still to run
  pending,             \* key pendingMessages, the storage.get calls about it
                       \* whose callbacks are still to run, and what was
                       \* posted to the popup's port
  \* ---- a page with the content script
  contentPage,         \* its highlight spans, the calls of the content script
                       \* under way, and the two stored highlight keys
  \* ---- history (no variable of the program)
  lastSites,           \* the list of the last 'updateConfidentialSites' message
  \* ---- calls in flight, by the point they are suspended at
  runs,                \* indexPage / processPageContent calls
  tasks,               \* initializeExtension / regenerateTestData / addTestData calls
  \* ---- observation of the last step
  op,                  \* the call made and what it returned or sent
  pre,                 \* the library state the call started from
  \* ---- the popup page
  popup                \* its displays, lists and the search it is running

vars == <<confidentialSites, faissIndex, urlToDocMap, isInitialized,
          indexingInProgress, nextId, vectors, dimensions, stSites, stIndex,
          runs, tasks, op, pre, popup, sitesRead, pending, contentPage, lastSites>>

bgVars    == <<isInitialized, indexingInProgress, runs>>
libVars   == <<nextId, vectors, dimensions>>
storeVars == <<faissIndex, urlToDocMap, stIndex, tasks>>
otherVars == <<popup, sitesRead, pending, contentPage, lastSites>>

----------------------------------------------------------------------------
(* Strings *)

\* String.prototype.includes: p occurs in s as a contiguous substring
Includes(s, p) ==
  \E i \in 0..(Len(s) - Len(p)) : SubSeq(s, i + 1, i + Len(p)) = p

\* position of the first occurrence of character c in s, 0 when absent
RECURSIVE IndexOfFrom(_, _, _)
IndexOfFrom(s, c, i) ==
  IF i > Len(s) THEN 0
  ELSE IF s[i] = c THEN i
  ELSE IndexOfFrom(s, c, i + 1)

IndexOf(s, c) == IndexOfFrom(s, c, 1)

\* all strings over alphabet A of length at most n
RECURSIVE StringsUpTo(_, _)
StringsUpTo(A, n) ==
  IF n = 0 THEN {<< >>}
  ELSE LET shorter == StringsUpTo(A, n - 1)
       IN  shorter \cup {Append(s, c) : s \in {t \in shorter : Len(t) = n - 1}, c \in A}

\* all sequences over S of length at most n
RECURSIVE SeqsUpTo(_, _)
SeqsUpTo(S, n) ==
  IF n = 0 THEN {<< >>}
  ELSE LET shorter == SeqsUpTo(S, n - 1)
       IN  shorter \cup {Append(s, x) : s \in {t \in shorter : Len(t) = n - 1}, x \in S}

----------------------------------------------------------------------------
(* new URL(url): ":" stands for the "://" after the scheme.  A url parses   *)
(* when it has a non-empty scheme and a non-empty host; the hostname runs   *)
(* to the first "/", the pathname is the rest, "/" when there is none.      *)

UrlChars == {"a", "b", "/", ":"}

ParseURL(url) ==
  LET c    == IndexOf(url, ":")
      rest == IF c = 0 THEN << >> ELSE SubSeq(url, c + 1, Len(url))
      sl   == IndexOf(rest, "/")
      host == IF sl = 0 THEN rest ELSE SubSeq(rest, 1, sl - 1)
      path == IF sl = 0 THEN <<"/">> ELSE SubSeq(rest, sl, Len(rest))
      ok   == /\ c > 1
              /\ IndexOf(SubSeq(url, 1, c - 1), "/") = 0
              /\ Len(host) > 0
              /\ IndexOf(host, ":") = 0
              /\ IndexOf(path, ":") = 0
  IN  [ok |-> ok, hostname |-> host, pathname |-> path]

ErrorParsingURL == <<"Error parsing URL">>

\* the for-of loop of isConfidentialSite over the patterns from position i on
RECURSIVE MatchFrom(_, _, _, _)
MatchFrom(sites, hostname, pathname, i) ==
  IF i > Len(sites)
  THEN [isConfidential |-> FALSE, matchedPattern |-> << >>]
  ELSE IF Includes(hostname, sites[i]) \/ Includes(pathname, sites[i])
       THEN [isConfidential |-> TRUE, matchedPattern |-> <<sites[i]>>]
       ELSE MatchFrom(sites, hostname, pathname, i + 1)

\* mutants of isConfidentialSite
isConfidentialSiteHostOnly(sites, url) ==
  LET u == ParseURL(url)
  IN  IF ~u.ok THEN [isConfidential |-> TRUE, matchedPattern |-> <<ErrorParsingURL>>]
      ELSE MatchFrom(sites, u.hostname, << >>, 1)

\* isConfidentialSite(url) against the list `sites`; matchedPattern is << >>
\* for null and <<p>> for the pattern p
isConfidentialSite(sites, url) ==
  LET u == ParseURL(url)
  IN  IF ~u.ok THEN [isConfidential |-> TRUE, matchedPattern |-> <<ErrorParsingURL>>]
      ELSE MatchFrom(sites, u.hostname, u.pathname, 1)

----------------------------------------------------------------------------
(* The vector index library (faiss-wasm placeholder).  nextId, vectors and  *)
(* dimensions are variables of the module closure: every index object      *)
(* returned by createIndex or deserializeIndex reads and writes the same    *)
(* three; only ntotal belongs to the object.  Vector components are         *)
(* integers and similarities are compared exactly.                          *)

EmptyVectors == << >>

Lib(n, vs, d) == [nextId |-> n, vectors |-> vs, dimensions |-> d]

RECURSIVE SumTo(_, _, _)
SumTo(a, b, i) == IF i = 0 THEN 0 ELSE a[i] * b[i] + SumTo(a, b, i - 1)

Abs(x) == IF x < 0 THEN -x ELSE x

\* cosineSimilarity(a, b) = dot / (sqrt(normA) * sqrt(normB)), 0 when a norm
\* is 0.  The value is kept as the fraction sgn(dot)*dot^2 / (normA*normB),
\* which orders exactly as the quotient does (x -> x*|x| is increasing).
cosineSimilarity(a, b) ==
  LET dotProduct == SumTo(a, b, Len(a))
      normA      == SumTo(a, a, Len(a))
      normB      == SumTo(b, b, Len(a))
  IN  IF normA = 0 \/ normB = 0 THEN [num |-> 0, den |-> 1]
      ELSE [num |-> dotProduct * Abs(dotProduct), den |-> normA * normB]

\* sign of x.score - y.score
ScoreGt(x, y) == x.num * y.den > y.num * x.den
ScoreEq(x, y) == x.num * y.den = y.num * x.den

\* for (const id in vectors): integer-like keys come in ascending numeric order
RECURSIVE ForInDescending(_)
ForInDescending(ids) ==
  IF ids = {} THEN << >>
  ELSE LET m == CHOOSE x \in ids : \A y \in ids : x >= y
       IN  <<m>> \o ForInDescending(ids \ {m})

RECURSIVE ForIn(_)
ForIn(ids) ==
  IF ids = {} THEN << >>
  ELSE LET m == CHOOSE x \in ids : \A y \in ids : x <= y
       IN  <<m>> \o ForIn(ids \ {m})

\* scores.sort((a, b) => b.score - a.score): a stable sort, so an element goes
\* behind every element whose score is not lower than its own
RECURSIVE InsertByScore(_, _, _)
InsertByScore(sorted, x, i) ==
  IF i > Len(sorted) THEN Append(sorted, x)
  ELSE IF ScoreGt(x.score, sorted[i].score)
       THEN SubSeq(sorted, 1, i - 1) \o <<x>> \o SubSeq(sorted, i, Len(sorted))
       ELSE InsertByScore(sorted, x, i + 1)

RECURSIVE SortByScore(_, _)
SortByScore(scores, n) ==
  IF n = 0 THEN << >>
  ELSE InsertByScore(SortByScore(scores, n - 1), scores[n], 1)

Min(a, b) == IF a < b THEN a ELSE b

\* mutant of search: the ids are visited from the highest to the lowest
searchDescendingKeys(vs, query, k) ==
  LET order  == ForInDescending(DOMAIN vs)
      scores == [i \in 1..Len(order) |->
                   [id |-> order[i], score |-> cosineSimilarity(query, vs[order[i]])]]
      sorted == SortByScore(scores, Len(scores))
  IN  [i \in 1..Min(k, Len(sorted)) |-> sorted[i].id]

\* mutant of search: slice(1, k) instead of slice(0, k)
searchDropFirst(vs, query, k) ==
  LET order  == ForIn(DOMAIN vs)
      scores == [i \in 1..Len(order) |->
                   [id |-> order[i], score |-> cosineSimilarity(query, vs[order[i]])]]
      sorted == SortByScore(scores, Len(scores))
  IN  [i \in 1..(Min(k, Len(sorted)) - 1) |-> sorted[i + 1].id]

\* search(query, k): score every stored vector, sort, slice(0, k), map to ids
search(vs, query, k) ==
  LET order  == ForIn(DOMAIN vs)
      scores == [i \in 1..Len(order) |->
                   [id |-> order[i], score |-> cosineSimilarity(query, vs[order[i]])]]
      sorted == SortByScore(scores, Len(scores))
  IN  [i \in 1..Min(k, Len(sorted)) |-> sorted[i].id]

\* createIndex(d): no check of d; resets the module state, returns an index
createIndex(d) ==
  [ok |-> TRUE, lib |-> Lib(0, EmptyVectors, d), ntotal |-> 0]

\* the loop of addWithIds from position i on; ids = << >> stands for no ids
RECURSIVE addLoop(_, _, _, _, _, _)
addLoop(lib, ntotal, vecs, ids, i, addedIds) ==
  IF i > Len(vecs)
  THEN [lib |-> lib, ntotal |-> ntotal, addedIds |-> addedIds]
  ELSE LET id     == IF ids # << >> THEN ids[i] ELSE lib.nextId
           nxt    == IF ids # << >> THEN lib.nextId ELSE lib.nextId + 1
           stored == (id :> vecs[i]) @@ lib.vectors
       IN  addLoop(Lib(nxt, stored, lib.dimensions), ntotal + 1, vecs, ids,
                   i + 1, Append(addedIds, id))

addWithIds(lib, ntotal, vecs, ids) == addLoop(lib, ntotal, vecs, ids, 1, << >>)

\* decimal digits of a property key, and parseInt of them
RECURSIVE ToDigits(_)
ToDigits(n) == IF n < 10 THEN <<n>> ELSE Append(ToDigits(n \div 10), n % 10)

RECURSIVE ParseInt(_)
ParseInt(ds) ==
  IF Len(ds) = 0 THEN 0
  ELSE ParseInt(SubSeq(ds, 1, Len(ds) - 1)) * 10 + ds[Len(ds)]

\* serialize(): JSON.stringify({dimensions, vectors, nextId}); the object
\* `vectors` is written as its (key, value) members in enumeration order
serialize(lib) ==
  LET order == ForIn(DOMAIN lib.vectors)
  IN  [parseable  |-> TRUE,
       hasDimensions |-> TRUE,
       dimensions |-> lib.dimensions,
       vectors    |-> [i \in 1..Len(order) |->
                         [key |-> ToDigits(order[i]), value |-> lib.vectors[order[i]]]],
       nextId     |-> lib.nextId]

\* the object JSON.parse builds from the members, a later member with the same
\* key replacing an earlier one
RECURSIVE ObjectOf(_, _)
ObjectOf(members, n) ==
  IF n = 0 THEN EmptyVectors
  ELSE (ParseInt(members[n].key) :> members[n].value) @@ ObjectOf(members, n - 1)

\* the value of a property the parsed object does not have
Undefined == "undefined"

\* parsed.dimensions
ParsedDimensions(blob) == IF blob.hasDimensions THEN blob.dimensions ELSE Undefined

\* mutant of deserializeIndex: the id counter starts again at 0
deserializeIndexResetNextId(lib, blob) ==
  IF ~blob.parseable THEN [ok |-> FALSE, lib |-> lib, ntotal |-> 0]
  ELSE LET vs == ObjectOf(blob.vectors, Len(blob.vectors))
       IN  [ok |-> TRUE, lib |-> Lib(0, vs, ParsedDimensions(blob)),
            ntotal |-> Cardinality(DOMAIN vs)]

\* deserializeIndex(data): JSON.parse throws on a malformed string, before
\* the module state is touched; the members of the parsed object are assigned
\* as they are, dimensions unchecked; ntotal is Object.keys(vectors).length
deserializeIndex(lib, blob) ==
  IF ~blob.parseable THEN [ok |-> FALSE, lib |-> lib, ntotal |-> 0]
  ELSE LET vs == ObjectOf(blob.vectors, Len(blob.vectors))
       IN  [ok |-> TRUE, lib |-> Lib(blob.nextId, vs, ParsedDimensions(blob)),
            ntotal |-> Cardinality(DOMAIN vs)]

CurLib == Lib(nextId, vectors, dimensions)

----------------------------------------------------------------------------
(* Bounds and input sets *)

MaxHostLen == 2     \* longest hostname of a url given to testConfidentialSite
MaxPathLen == 1     \* longest path segment of such a url
MaxSites   == 2     \* longest list given to updateConfidentialSites
MaxStored  == 3     \* most vectors stored in the index
MaxNtotal  == 4     \* cap of the ntotal counter
MaxK       == 4     \* largest k given to search

Patterns  == {<<"a">>, <<"a", "b">>, <<"/", "a">>}
SiteLists == SeqsUpTo(Patterns, MaxSites)

\* urls with and without a scheme, with an empty or non-empty host, with no
\* path, the path "/" or a longer path
TestUrls ==
  {scheme \o host \o path :
     scheme \in {<< >>, <<"a", ":">>},
     host   \in StringsUpTo({"a", "b"}, MaxHostLen),
     path   \in {<< >>} \cup {<<"/">> \o seg : seg \in StringsUpTo({"a", "b"}, MaxPathLen)}}

Vecs        == {<<1, 0>>, <<2, 0>>, <<1, 1>>}
Queries     == {<<1, 0>>, <<-1, 1>>, <<0, 0>>}
SuppliedIds == {1, 10}
DimInputs   == {-1, 0, 2}
\* blobs given to deserializeIndex: the text of a saved index cut short, and
\* the text of a saved index without the member dimensions
SavedBlob == serialize(Lib(1, (0 :> <<1, 0>>), 2))
BlobInputs ==
  {[SavedBlob EXCEPT !.parseable = FALSE],
   [SavedBlob EXCEPT !.hasDimensions = FALSE]}

AutoBatches == {<<v>> : v \in Vecs} \cup {<<v, w>> : v \in {<<1, 0>>}, w \in Vecs}

MaxTasks == 2       \* concurrent initializeExtension / regenerateTestData calls
MaxDocs  == 3       \* cap of the number of test documents added to one index

EmbeddingDimension == 384

\* the urls of testPages in addTestData, and the embedding the backend
\* returns for the content of each
TestPages == <<"https://example.com/test1", "https://example.com/test2",
               "https://example.com/test3">>
EmbeddingOf(page) == IF page = 1 THEN <<1, 0>> ELSE IF page = 2 THEN <<2, 0>> ELSE <<1, 1>>

\* the default list of loadConfidentialSites, shortened to one hostname
\* pattern and one path pattern
DefaultSites == << <<"a", "b">>, <<"/", "a">> >>


Task(kind, pc, page) == [kind |-> kind, pc |-> pc, page |-> page]

\* the positions a call can be suspended at
TaskStates ==
  {Task("init", "loadSites", 0), Task("init", "loadIndex", 0)}
    \cup {Task(kind, "embed", page) : kind \in {"init", "regen"}, page \in 1..Len(TestPages)}
    \cup {Task(kind, "saving", 0) : kind \in {"init", "regen"}}

NoTasks == [x \in TaskStates |-> 0]

MaxRuns == 2        \* concurrent indexPage / processPageContent calls

\* pages: host "b" with path "/a", and host "ab" with path "/b".  The tab
\* events and the 'indexPage' message are about the first, the 'processPage'
\* message about either.
IndexUrls == {<<"a", ":", "b", "/", "a">>}
PageUrls  == IndexUrls \cup {<<"a", ":", "a", "b", "/", "b">>}

\* the lists the popup sends in 'updateConfidentialSites' while pages are indexed
EditedLists == {<< >>, << <<"/", "a">> >>, << <<"a", "b">> >>, DefaultSites}

Run(kind, pc, url) == [kind |-> kind, pc |-> pc, url |-> url]

\* the argument of indexPage: null, a tab without url (or with url ''), a tab
NoTab      == [present |-> FALSE, hasUrl |-> FALSE, url |-> << >>]
TabOf(url) == [present |-> TRUE, hasUrl |-> TRUE, url |-> url]
Tabs ==
  {NoTab, [NoTab EXCEPT !.present = TRUE], TabOf(<< >>)}
    \cup {TabOf(url) : url \in IndexUrls}

\* kind "tab": indexPage(tab) from tabs.onUpdated / tabs.onActivated;
\* kind "message": indexPage({url, title}) from the 'indexPage' message;
\* kind "processPage": processPageContent from the 'processPage' message
RunStates ==
  {Run("tab", pc, url) : pc \in {"checking", "content", "indexing"}, url \in IndexUrls}
    \cup {Run("message", "checking", url) : url \in IndexUrls}
    \cup {Run("processPage", "indexing", url) : url \in PageUrls}

NoRuns == [x \in RunStates |-> 0]

\* ---- the search of the popup
MaxResults == 3     \* longest result list the backend answers with

\* what the user typed in the search box
QueryInputs == {<< >>, <<" ">>, <<" ", " ">>, <<"q">>, <<" ", "q", " ">>}

\* urls of search results; the last one contains 'example.com/test', here "t"
ResultUrls      == {<<"a">>, <<"b">>, <<"x", "t">>}
TestDataPattern == <<"t">>
ResultScores    == {1, 2}
ResultItems     == [url : ResultUrls, score : ResultScores]
ResultLists     == SeqsUpTo(ResultItems, MaxResults)

\* let userContext = {} and the preferences object of the backend
EmptyContext == "{}"
Preferences  == {"preferences"}

SearchFailures == {"networkError", "httpStatus", "successFalse"}
PrefsFailures  == {"networkError", "httpStatus", "successFalse", "invalidJson"}

NoSearch ==
  [pc |-> "idle", query |-> << >>, userContext |-> EmptyContext,
   outcome |-> "none", backendResults |-> << >>, reply |-> [results |-> << >>]]

Shown(text, items) == [text |-> text, items |-> items]

\* ---- the status display of the popup
MaxMessages == 4    \* indexing_status messages the popup receives
MaxTimers   == 2    \* pending reset timers of updateStatus

\* #status className, #status-text and #error-message
StatusShown(className, text, error) ==
  [className |-> className, text |-> text, error |-> error]

IdleStatus == StatusShown("idle", "Ready to search", "")

\* ---- the notification area of the popup
MaxNotified == 5    \* calls of addNotification

\* ---- the categories of the popup
MaxCategories == 2  \* longest category list the backend answers with
MaxPending    == 2  \* concurrent requests of one kind about the categories

\* category names are strings of letters in upper and lower case: "Ot" is
\* 'Others', "ot" 'others', "OT" 'OTHERS' and "s" any other category
Others        == <<"O", "t">>
CategoryNames == {Others, <<"o", "t">>, <<"O", "T">>, <<"s">>}
CategoryLists == SeqsUpTo(CategoryNames, MaxCategories)

\* let availableCategories = ['Sports', ..., 'Others']
DefaultCategories == << <<"s">>, Others >>

\* the popup when it is opened
NoPopup ==
  [search |-> NoSearch, searchResults |-> Shown("", << >>),
   searchStats |-> Shown("", << >>), backendStatus |-> "",
   availableCategories |-> DefaultCategories, categoryList |-> << >>,
   loading |-> 0, removing |-> 0,
   status |-> IdleStatus, resetTimers |-> 0, received |-> 0,
   notifications |-> << >>, notified |-> 0,
   checkboxes |-> << >>, boxesLoad |-> "none", prefsLoad |-> "none",
   prefsCategories |-> << >>]

\* ---- the stored pendingMessages
MaxFailed == 3      \* status messages whose direct delivery fails

\* nothing stored, no storage.get under way, nothing posted; made counts the
\* messages whose delivery failed, which are numbered in that order
NoPending == [stored |-> << >>, gets |-> << >>, posted |-> << >>, made |-> 0]

\* ---- the page
MaxMatches   == 2   \* occurrences of the highlight text in the page
MaxMutations == 2   \* changes the page makes to its own content

\* a page whose content script has not started: no span, nothing under way,
\* highlightEnabled and pendingHighlight not stored
NoPage ==
  [started |-> FALSE, matches |-> 0, spans |-> 0, observer |-> FALSE,
   requests |-> 0, reads |-> 0, mutations |-> 0,
   highlightEnabled |-> FALSE, pendingHighlight |-> FALSE]

NoOp  == [kind |-> "none"]
NoPre == [vectors |-> EmptyVectors, nextId |-> 0]
NoIndex == [open |-> FALSE, ntotal |-> 0]

----------------------------------------------------------------------------
(* State at load of the background script and of the library module *)

Init ==
  /\ confidentialSites = << >>
  /\ faissIndex = NoIndex
  /\ urlToDocMap = << >>
  /\ isInitialized = FALSE
  /\ indexingInProgress = {}
  /\ nextId = 0
  /\ vectors = EmptyVectors
  /\ dimensions = 0
  /\ stSites = << >>
  /\ stIndex = << >>
  /\ runs = NoRuns
  /\ tasks = NoTasks
  /\ op = NoOp
  /\ pre = NoPre
  /\ popup = NoPopup
  /\ sitesRead = << >>
  /\ lastSites = << >>
  /\ pending = NoPending
  /\ contentPage = NoPage

----------------------------------------------------------------------------
(* Message handlers of the confidential-site list *)

\* updateConfidentialSites(newSites), from the 'updateConfidentialSites' message
updateConfidentialSites(newSites) ==
  /\ confidentialSites' = newSites
  /\ stSites' = <<newSites>>
  /\ lastSites' = <<newSites>>
  /\ op' = [kind |-> "updateConfidentialSites"]
  /\ pre' = NoPre
  /\ UNCHANGED <<bgVars, libVars, storeVars, popup, sitesRead, pending, contentPage>>

\* the 'getConfidentialSites' message: sendResponse({sites: confidentialSites})
getConfidentialSites ==
  /\ op' = [kind |-> "getConfidentialSites", sites |-> confidentialSites]
  /\ pre' = NoPre
  /\ UNCHANGED <<confidentialSites, stSites, bgVars, libVars, storeVars, otherVars>>

\* the 'testConfidentialSite' message: sendResponse(isConfidentialSite(url))
testConfidentialSite(url) ==
  /\ op' = [kind |-> "testConfidentialSite", url |-> url,
            result |-> isConfidentialSite(confidentialSites, url)]
  /\ pre' = NoPre
  /\ UNCHANGED <<confidentialSites, stSites, bgVars, libVars, storeVars, otherVars>>

UpdateSitesMessage == \E newSites \in SiteLists : updateConfidentialSites(newSites)
TestSiteMessage    == \E url \in TestUrls : testConfidentialSite(url)

NextConf == UpdateSitesMessage \/ TestSiteMessage

SpecConf == Init /\ [][NextConf]_vars

----------------------------------------------------------------------------
(* Calls of the vector index library by a caller holding the index object *)

SetLib(lib) ==
  /\ nextId' = lib.nextId
  /\ vectors' = lib.vectors
  /\ dimensions' = lib.dimensions

CreateIndexCall ==
  \E d \in DimInputs :
    LET r == createIndex(d)
    IN  /\ IF r.ok
           THEN SetLib(r.lib) /\ faissIndex' = [open |-> TRUE, ntotal |-> r.ntotal]
           ELSE UNCHANGED <<libVars, faissIndex>>
        /\ op' = [kind |-> "createIndex", d |-> d, ok |-> r.ok]
        /\ pre' = [vectors |-> vectors, nextId |-> nextId]
        /\ UNCHANGED <<confidentialSites, stSites, bgVars, urlToDocMap, stIndex, tasks, otherVars>>

AddCall(vecs, ids) ==
  LET r == addWithIds(CurLib, faissIndex.ntotal, vecs, ids)
  IN  /\ faissIndex.open
      /\ faissIndex.ntotal + Len(vecs) <= MaxNtotal
      /\ Cardinality(DOMAIN r.lib.vectors) <= MaxStored
      /\ SetLib(r.lib)
      /\ faissIndex' = [open |-> TRUE, ntotal |-> r.ntotal]
      /\ op' = [kind |-> "addWithIds", hasIds |-> ids # << >>, addedIds |-> r.addedIds]
      /\ pre' = [vectors |-> vectors, nextId |-> nextId]
      /\ UNCHANGED <<confidentialSites, stSites, bgVars, urlToDocMap, stIndex, tasks, otherVars>>

AddWithIdsGiven == \E v \in Vecs, id \in SuppliedIds : AddCall(<<v>>, <<id>>)
AddWithIdsAuto  == \E vecs \in AutoBatches : AddCall(vecs, << >>)

SearchCall ==
  \E query \in Queries, k \in 0..MaxK :
    /\ faissIndex.open
    /\ op' = [kind |-> "search", query |-> query, k |-> k,
              result |-> search(vectors, query, k)]
    /\ pre' = NoPre
    /\ UNCHANGED <<confidentialSites, stSites, bgVars, libVars, storeVars, otherVars>>

\* deserializeIndex(index.serialize())
RoundTripCall ==
  LET r == deserializeIndex(CurLib, serialize(CurLib))
  IN  /\ faissIndex.open
      /\ IF r.ok
         THEN SetLib(r.lib) /\ faissIndex' = [open |-> TRUE, ntotal |-> r.ntotal]
         ELSE UNCHANGED <<libVars, faissIndex>>
      /\ op' = [kind |-> "roundTrip", ok |-> r.ok]
      /\ pre' = [vectors |-> vectors, nextId |-> nextId]
      /\ UNCHANGED <<confidentialSites, stSites, bgVars, urlToDocMap, stIndex, tasks, otherVars>>

\* deserializeIndex(data) of a string that is not JSON, or of the JSON text
\* of an object without the member dimensions
DeserializeCall ==
  \E blob \in BlobInputs :
    LET r == deserializeIndex(CurLib, blob)
    IN  /\ IF r.ok
           THEN SetLib(r.lib) /\ faissIndex' = [open |-> TRUE, ntotal |-> r.ntotal]
           ELSE UNCHANGED <<libVars, faissIndex>>
        /\ op' = [kind |-> "deserializeIndex", malformed |-> ~blob.parseable,
                  noDimension |-> ~blob.hasDimensions, ok |-> r.ok,
                  ntotal |-> r.ntotal]
        /\ pre' = [vectors |-> vectors, nextId |-> nextId]
        /\ UNCHANGED <<confidentialSites, stSites, bgVars, urlToDocMap, stIndex, tasks, otherVars>>

NextIndex ==
  \/ CreateIndexCall
  \/ AddWithIdsGiven
  \/ AddWithIdsAuto
  \/ SearchCall
  \/ RoundTripCall
  \/ DeserializeCall

SpecIndex == Init /\ [][NextIndex]_vars

----------------------------------------------------------------------------
(* The test-data index of the background script: initializeExtension,      *)
(* regenerateTestData, addTestData, initializeFaissIndex, saveIndex.       *)
(* A task is one call of initializeExtension or regenerateTestData; it     *)
(* suspends at chrome.storage callbacks and at every getEmbedding.         *)

\* mutant of addTestPage: the mapping is stored under the count after the add
addTestPageKeyedByCount(lib, ntotal, map, page) ==
  LET r == addWithIds(lib, ntotal, <<EmbeddingOf(page)>>, <<ntotal>>)
  IN  [lib |-> r.lib, ntotal |-> r.ntotal,
       map |-> (r.ntotal :> [url |-> TestPages[page]]) @@ map]

\* one turn of the loop of addTestData, after its embedding arrived:
\* id = faissIndex.addWithIds([embedding], [faissIndex.ntotal])[0];
\* urlToDocMap[id] = {url, text, startIndex}
addTestPage(lib, ntotal, map, page) ==
  LET r  == addWithIds(lib, ntotal, <<EmbeddingOf(page)>>, <<ntotal>>)
      id == r.addedIds[1]
  IN  [lib |-> r.lib, ntotal |-> r.ntotal,
       map |-> (id :> [url |-> TestPages[page]]) @@ map]

\* the ways the request of getEmbedding fails: fetch rejects, the status is
\* not OK, the body is not JSON
EmbeddingFailures == {"networkError", "httpStatus", "invalidJson"}

\* nomicEmbed.getEmbedding(page.content): result.embedding of an OK answer;
\* every failure is caught, logged and thrown again, with no second request
getEmbedding(page, outcome) ==
  IF outcome \in EmbeddingFailures
  THEN [threw |-> TRUE]
  ELSE [threw |-> FALSE, embedding |-> EmbeddingOf(page)]

\* mutant of afterEmbedding: a failed embedding is replaced by a zero vector
afterEmbeddingZeroVector(lib, ntotal, map, page, e) ==
  IF e.threw
  THEN LET r == addWithIds(lib, ntotal, << <<0, 0>> >>, <<ntotal>>)
       IN  [lib |-> r.lib, ntotal |-> r.ntotal, map |-> map, threw |-> TRUE]
  ELSE LET r == addTestPage(lib, ntotal, map, page)
       IN  [lib |-> r.lib, ntotal |-> r.ntotal, map |-> r.map, threw |-> FALSE]

\* one turn of the loop of addTestData from the point getEmbedding settles:
\* a rejection leaves the loop through the catch, which throws it again
afterEmbedding(lib, ntotal, map, page, e) ==
  IF e.threw
  THEN [lib |-> lib, ntotal |-> ntotal, map |-> map, threw |-> TRUE]
  ELSE LET r == addTestPage(lib, ntotal, map, page)
       IN  [lib |-> r.lib, ntotal |-> r.ntotal, map |-> r.map, threw |-> FALSE]

\* saveIndex(): chrome.storage.local.set({faissIndexData, urlToDocMap}), one write
saveIndex(lib, map) ==
  <<[faissIndexData |-> serialize(lib), urlToDocMap |-> map]>>

\* result.faissIndexData && result.urlToDocMap: both keys are in the storage
HasPair(stored) ==
  /\ stored # << >>
  /\ {"faissIndexData", "urlToDocMap"} \subseteq DOMAIN stored[1]

\* mutant of loadIndex: a blob that fails to load leaves the stored map in use
loadIndexKeepMap(lib, stored) ==
  IF ~HasPair(stored)
  THEN [lib |-> createIndex(EmbeddingDimension).lib, ntotal |-> 0, map |-> << >>,
        fallback |-> "absent"]
  ELSE LET r == deserializeIndex(lib, stored[1].faissIndexData)
       IN  IF r.ok THEN [lib |-> r.lib, ntotal |-> r.ntotal,
                         map |-> stored[1].urlToDocMap, fallback |-> "none"]
           ELSE [lib |-> createIndex(EmbeddingDimension).lib, ntotal |-> 0,
                 map |-> stored[1].urlToDocMap, fallback |-> "deserializeFailed"]

\* the storage callback of initializeFaissIndex: load the stored pair, or
\* create an empty index when a part is absent or deserializeIndex throws
loadIndex(lib, stored) ==
  IF ~HasPair(stored)
  THEN [lib |-> createIndex(EmbeddingDimension).lib, ntotal |-> 0, map |-> << >>,
        fallback |-> "absent"]
  ELSE LET r == deserializeIndex(lib, stored[1].faissIndexData)
       IN  IF r.ok THEN [lib |-> r.lib, ntotal |-> r.ntotal,
                         map |-> stored[1].urlToDocMap, fallback |-> "none"]
           ELSE [lib |-> createIndex(EmbeddingDimension).lib, ntotal |-> 0,
                 map |-> << >>, fallback |-> "deserializeFailed"]

RECURSIVE CountTasks(_, _)
CountTasks(tk, S) ==
  IF S = {} THEN 0
  ELSE LET x == CHOOSE y \in S : TRUE IN tk[x] + CountTasks(tk, S \ {x})

ActiveTasks == CountTasks(tasks, TaskStates)

\* a call starts, moves to its next suspension point, returns
Spawn(to)      == tasks' = [tasks EXCEPT ![to] = @ + 1]
Finish(from)   == tasks' = [tasks EXCEPT ![from] = @ - 1]
Move(from, to) ==
  tasks' = [x \in TaskStates |->
              tasks[x] - (IF x = from THEN 1 ELSE 0) + (IF x = to THEN 1 ELSE 0)]

\* the storage callback of loadConfidentialSites: result.confidentialSites is
\* taken when it is there (an empty array is truthy), else the default list
\* is assigned and saved
loadConfidentialSites(result) ==
  IF result # << >>
  THEN [sites |-> result[1], save |-> FALSE]
  ELSE [sites |-> DefaultSites, save |-> TRUE]

\* initializeExtension() up to its first suspension: loadConfidentialSites has
\* called chrome.storage.local.get, which reads before any later set writes
StartInit ==
  /\ ActiveTasks < MaxTasks
  /\ ~isInitialized
  /\ Spawn(Task("init", "loadSites", 0))
  /\ sitesRead' = Append(sitesRead, stSites)
  /\ op' = NoOp
  /\ UNCHANGED <<confidentialSites, stSites, bgVars, libVars, faissIndex,
                 urlToDocMap, stIndex, pre, popup, pending, contentPage, lastSites>>

\* the storage callback of loadConfidentialSites, then initializeFaissIndex
\* up to its storage request
InitSitesLoaded ==
  /\ tasks[Task("init", "loadSites", 0)] > 0
  /\ sitesRead # << >>
  /\ LET r == loadConfidentialSites(Head(sitesRead))
     IN  /\ confidentialSites' = r.sites
         /\ IF r.save THEN stSites' = <<r.sites>> ELSE UNCHANGED stSites
  /\ sitesRead' = Tail(sitesRead)
  /\ Move(Task("init", "loadSites", 0), Task("init", "loadIndex", 0))
  /\ op' = NoOp
  /\ UNCHANGED <<bgVars, libVars, faissIndex, urlToDocMap, stIndex, pre, popup,
                 pending, contentPage, lastSites>>

\* the storage callback of initializeFaissIndex, then addTestData() up to its
\* first getEmbedding: it returns at once when urlToDocMap is not empty
InitIndexLoaded ==
  LET r == loadIndex(CurLib, stIndex)
  IN  /\ tasks[Task("init", "loadIndex", 0)] > 0
      /\ SetLib(r.lib)
      /\ faissIndex' = [open |-> TRUE, ntotal |-> r.ntotal]
      /\ urlToDocMap' = r.map
      /\ IF Cardinality(DOMAIN r.map) > 0
         THEN /\ isInitialized' = TRUE
              /\ Finish(Task("init", "loadIndex", 0))
         ELSE /\ UNCHANGED isInitialized
              /\ Move(Task("init", "loadIndex", 0), Task("init", "embed", 1))
      /\ op' = [kind |-> "initializeFaissIndex", fallback |-> r.fallback]
      /\ UNCHANGED <<confidentialSites, stSites, indexingInProgress, runs,
                     stIndex, pre, otherVars>>

\* regenerateTestData(): createIndex(384), urlToDocMap = {}, then
\* addTestData(true) up to its first getEmbedding
StartRegen ==
  LET r == createIndex(EmbeddingDimension)
  IN  /\ ActiveTasks < MaxTasks
      /\ SetLib(r.lib)
      /\ faissIndex' = [open |-> TRUE, ntotal |-> r.ntotal]
      /\ urlToDocMap' = << >>
      /\ Spawn(Task("regen", "embed", 1))
      /\ op' = NoOp
      /\ UNCHANGED <<confidentialSites, stSites, bgVars, stIndex, pre, otherVars>>

\* getEmbedding resolved: the page is added; after the last page saveIndex()
\* writes the pair and waits for the storage callback
EmbeddingReturned(kind, page) ==
  LET r == addTestPage(CurLib, faissIndex.ntotal, urlToDocMap, page)
  IN  /\ tasks[Task(kind, "embed", page)] > 0
      /\ faissIndex.ntotal < MaxDocs
      /\ SetLib(r.lib)
      /\ faissIndex' = [open |-> TRUE, ntotal |-> r.ntotal]
      /\ urlToDocMap' = r.map
      /\ IF page < Len(TestPages)
         THEN /\ Move(Task(kind, "embed", page), Task(kind, "embed", page + 1))
              /\ UNCHANGED stIndex
         ELSE /\ Move(Task(kind, "embed", page), Task(kind, "saving", 0))
              /\ stIndex' = saveIndex(r.lib, r.map)
      /\ op' = NoOp
      /\ UNCHANGED <<confidentialSites, stSites, bgVars, pre, otherVars>>

\* getEmbedding rejected (network error or HTTP status): addTestData rethrows,
\* nothing is added or saved; regenerateTestData returns {success: false},
\* initializeExtension rejects before isInitialized is set
EmbeddingFailed(kind, page) ==
  \E failure \in EmbeddingFailures :
    LET e == getEmbedding(page, failure)
        r == afterEmbedding(CurLib, faissIndex.ntotal, urlToDocMap, page, e)
    IN  /\ tasks[Task(kind, "embed", page)] > 0
        /\ SetLib(r.lib)
        /\ faissIndex' = [faissIndex EXCEPT !.ntotal = r.ntotal]
        /\ urlToDocMap' = r.map
        /\ Finish(Task(kind, "embed", page))
        /\ op' = NoOp
        /\ UNCHANGED <<confidentialSites, stSites, bgVars, stIndex, pre, otherVars>>

\* the storage callback of saveIndex: addTestData returns
SaveDone(kind) ==
  /\ tasks[Task(kind, "saving", 0)] > 0
  /\ isInitialized' = (isInitialized \/ kind = "init")
  /\ Finish(Task(kind, "saving", 0))
  /\ op' = NoOp
  /\ UNCHANGED <<confidentialSites, stSites, indexingInProgress, runs,
                 libVars, faissIndex, urlToDocMap, stIndex, pre, otherVars>>

\* the service worker is stopped and loaded again: the globals start over,
\* chrome.storage.local is kept
Restart ==
  /\ confidentialSites' = << >>
  /\ faissIndex' = NoIndex
  /\ urlToDocMap' = << >>
  /\ isInitialized' = FALSE
  /\ indexingInProgress' = {}
  /\ SetLib(Lib(0, EmptyVectors, 0))
  /\ tasks' = NoTasks
  /\ runs' = NoRuns
  /\ op' = NoOp
  /\ pre' = NoPre
  /\ sitesRead' = << >>
  /\ pending' = [pending EXCEPT !.gets = << >>]
  /\ UNCHANGED <<stSites, stIndex, popup, contentPage, lastSites>>

\* the stored faissIndexData is damaged outside the program
StorageCorrupted ==
  /\ HasPair(stIndex)
  /\ stIndex[1].faissIndexData.parseable
  /\ stIndex' = <<[stIndex[1] EXCEPT !.faissIndexData.parseable = FALSE]>>
  /\ op' = NoOp
  /\ UNCHANGED <<confidentialSites, stSites, bgVars, libVars, faissIndex,
                 urlToDocMap, tasks, pre, otherVars>>

\* one of the two stored keys is removed outside the program
StoragePartRemoved(key) ==
  /\ HasPair(stIndex)
  /\ stIndex' = <<[k \in DOMAIN stIndex[1] \ {key} |-> stIndex[1][k]]>>
  /\ op' = NoOp
  /\ UNCHANGED <<confidentialSites, stSites, bgVars, libVars, faissIndex,
                 urlToDocMap, tasks, pre, otherVars>>

TaskKinds == {"init", "regen"}

\* the confidential-site list over the lifetimes of the service worker: the
\* messages about the list, and initializeExtension up to the end of
\* loadConfidentialSites
NextSites ==
  \/ \E newSites \in EditedLists : updateConfidentialSites(newSites)
  \/ getConfidentialSites
  \/ \E url \in PageUrls : testConfidentialSite(url)
  \/ StartInit
  \/ InitSitesLoaded
  \/ Restart

SpecSites == Init /\ [][NextSites]_vars
PageNos   == 1..Len(TestPages)

NextStore ==
  \/ StartInit
  \/ InitSitesLoaded
  \/ InitIndexLoaded
  \/ StartRegen
  \/ \E kind \in TaskKinds, page \in PageNos : EmbeddingReturned(kind, page)
  \/ \E kind \in TaskKinds, page \in PageNos : EmbeddingFailed(kind, page)
  \/ \E kind \in TaskKinds : SaveDone(kind)
  \/ Restart
  \/ StorageCorrupted

SpecStore == Init /\ [][NextStore]_vars

\* initializeExtension over the lifetimes of the service worker, with the
\* storage damaged or partly removed between them
StoredKeys == {"faissIndexData", "urlToDocMap"}

NextLoad ==
  \/ StartInit
  \/ InitSitesLoaded
  \/ InitIndexLoaded
  \/ \E page \in PageNos : EmbeddingReturned("init", page)
  \/ \E page \in PageNos : EmbeddingFailed("init", page)
  \/ SaveDone("init")
  \/ Restart
  \/ StorageCorrupted
  \/ \E key \in StoredKeys : StoragePartRemoved(key)

SpecLoad == Init /\ [][NextLoad]_vars

\* the calls of addTestData of one lifetime of the service worker
NextEmbed ==
  \/ StartInit
  \/ InitSitesLoaded
  \/ InitIndexLoaded
  \/ StartRegen
  \/ \E kind \in TaskKinds, page \in PageNos : EmbeddingReturned(kind, page)
  \/ \E kind \in TaskKinds, page \in PageNos : EmbeddingFailed(kind, page)
  \/ \E kind \in TaskKinds : SaveDone(kind)

SpecEmbed == Init /\ [][NextEmbed]_vars

----------------------------------------------------------------------------
(* Indexing of pages by the background script: indexPage, processPageContent, *)
(* sendIndexingStatus.  The backend is outside the program: its answers are   *)
(* chosen freely.                                                              *)

Msg(status, error) == [status |-> status, error |-> error]

\* mutant of sendIndexingStatus: the message is sent whatever the set holds
sendIndexingStatusAlways(inProgress, url, m) ==
  [inProgress |-> inProgress \cup {<<url, m.status>>}, sent |-> {m}]

\* sendIndexingStatus(status, url, error): nothing is sent while the key
\* url-status is in indexingInProgress; else the key is added (a timer removes
\* it one second later) and the message is sent
sendIndexingStatus(inProgress, url, m) ==
  IF <<url, m.status>> \in inProgress
  THEN [inProgress |-> inProgress, sent |-> {}]
  ELSE [inProgress |-> inProgress \cup {<<url, m.status>>}, sent |-> {m}]

\* consecutive calls of sendIndexingStatus in one run of indexPage
RECURSIVE sendEach(_, _, _, _, _)
sendEach(inProgress, url, calls, i, sent) ==
  IF i > Len(calls) THEN [inProgress |-> inProgress, sent |-> sent]
  ELSE LET r == sendIndexingStatus(inProgress, url, calls[i])
       IN  sendEach(r.inProgress, url, calls, i + 1, sent \cup r.sent)

\* mutant of afterCheckIndexed: an indexed page is indexed again
afterCheckIndexedIgnoreIndexed(resp, sites, url, hasId) ==
  IF resp = "failed"
  THEN [calls |-> <<Msg("error", "Error checking if page is indexed")>>,
        direct |-> {}, next |-> "done", event |-> "checkFailed"]
  ELSE IF isConfidentialSite(sites, url).isConfidential
  THEN [calls |-> << >>, direct |-> {Msg("skipped", "This is a confidential site")},
        next |-> "done", event |-> "confidential"]
  ELSE IF hasId
  THEN [calls |-> <<Msg("started", "")>>, direct |-> {}, next |-> "content",
        event |-> "started"]
  ELSE [calls |-> <<Msg("started", ""), Msg("error", "getPageContent failed")>>,
        direct |-> {}, next |-> "done", event |-> "contentFailed"]

\* mutant of afterCheckIndexed: a failed check is taken as 'not indexed'
afterCheckIndexedContinueOnFailure(resp, sites, url, hasId) ==
  IF resp = "indexed"
  THEN [calls |-> <<Msg("skipped", "Page already indexed")>>,
        direct |-> {}, next |-> "done", event |-> "alreadyIndexed"]
  ELSE IF isConfidentialSite(sites, url).isConfidential
  THEN [calls |-> << >>, direct |-> {Msg("skipped", "This is a confidential site")},
        next |-> "done", event |-> "confidential"]
  ELSE IF hasId
  THEN [calls |-> <<Msg("started", "")>>, direct |-> {}, next |-> "content",
        event |-> "started"]
  ELSE [calls |-> <<Msg("started", ""), Msg("error", "getPageContent failed")>>,
        direct |-> {}, next |-> "done", event |-> "contentFailed"]

\* indexPage from the answer of /check-indexed up to the next suspension:
\* "failed" is a network error or a non-OK status, "indexed" is success with
\* isIndexed, "notIndexed" any other answer.  calls are the calls of
\* sendIndexingStatus, direct the messages sent with chrome.runtime.sendMessage
\* by indexPage itself.  getPageContent rejects at once for a tab without id.
afterCheckIndexed(resp, sites, url, hasId) ==
  IF resp = "failed"
  THEN [calls |-> <<Msg("error", "Error checking if page is indexed")>>,
        direct |-> {}, next |-> "done", event |-> "checkFailed"]
  ELSE IF resp = "indexed"
  THEN [calls |-> <<Msg("skipped", "Page already indexed")>>,
        direct |-> {}, next |-> "done", event |-> "alreadyIndexed"]
  ELSE IF isConfidentialSite(sites, url).isConfidential
  THEN [calls |-> << >>, direct |-> {Msg("skipped", "This is a confidential site")},
        next |-> "done", event |-> "confidential"]
  ELSE IF hasId
  THEN [calls |-> <<Msg("started", "")>>, direct |-> {}, next |-> "content",
        event |-> "started"]
  ELSE [calls |-> <<Msg("started", ""), Msg("error", "getPageContent failed")>>,
        direct |-> {}, next |-> "done", event |-> "contentFailed"]

\* mutant of processPageContent: the request is sent without the check
processPageContentNoCheck(sites, url) == "fetch"

\* processPageContent(url, title, content) up to its fetch of /index: it
\* returns without a request when the url is confidential
processPageContent(sites, url) ==
  IF isConfidentialSite(sites, url).isConfidential THEN "return" ELSE "fetch"

RECURSIVE CountRuns(_, _)
CountRuns(rn, S) ==
  IF S = {} THEN 0
  ELSE LET x == CHOOSE y \in S : TRUE IN rn[x] + CountRuns(rn, S \ {x})

ActiveRuns == CountRuns(runs, RunStates)

RunStarts(to)     == runs' = [runs EXCEPT ![to] = @ + 1]
RunEnds(from)     == runs' = [runs EXCEPT ![from] = @ - 1]
RunMoves(from, to) ==
  runs' = [x \in RunStates |->
             runs[x] - (IF x = from THEN 1 ELSE 0) + (IF x = to THEN 1 ELSE 0)]

\* what a step of indexPage or processPageContent did
Step(kind, url, event, sent, content, index) ==
  [kind |-> kind, url |-> url, event |-> event, sent |-> sent,
   contentRequested |-> content, indexRequested |-> index]

bgRest == <<confidentialSites, stSites, isInitialized, libVars, storeVars, pre, otherVars>>

\* indexPage(tab) up to its fetch of /check-indexed; it returns at once while
\* the key url-started is in indexingInProgress
IndexPageStart(kind, url) ==
  /\ ActiveRuns < MaxRuns
  /\ IF <<url, "started">> \in indexingInProgress
     THEN /\ UNCHANGED runs
          /\ op' = Step("indexPage", url, "alreadyInProgress", {}, FALSE, FALSE)
     ELSE /\ RunStarts(Run(kind, "checking", url))
          /\ op' = Step("indexPage", url, "checking", {}, FALSE, FALSE)
  /\ UNCHANGED <<indexingInProgress, bgRest>>

\* !(!tab || !tab.url)
validTab(tab) == tab.present /\ tab.hasUrl /\ tab.url # << >>

\* indexPage(tab) from its first line: an invalid tab is logged and the
\* function returns
IndexPage(kind, tab) ==
  IF validTab(tab)
  THEN IndexPageStart(kind, tab.url)
  ELSE /\ op' = Step("indexPage", << >>, "invalidTab", {}, FALSE, FALSE)
       /\ UNCHANGED <<runs, indexingInProgress, bgRest>>

\* the answer of /check-indexed arrives
CheckIndexedResponse(kind, url, resp) ==
  LET b == afterCheckIndexed(resp, confidentialSites, url, kind = "tab")
      s == sendEach(indexingInProgress, url, b.calls, 1, {})
  IN  /\ runs[Run(kind, "checking", url)] > 0
      /\ indexingInProgress' = s.inProgress
      /\ IF b.next = "content"
         THEN RunMoves(Run(kind, "checking", url), Run(kind, "content", url))
         ELSE RunEnds(Run(kind, "checking", url))
      /\ op' = [Step("indexPage", url, b.event, s.sent \cup b.direct,
                     b.next = "content", FALSE)
                  EXCEPT !.kind = IF resp = "indexed" THEN "indexPageIndexed" ELSE @]
      /\ UNCHANGED bgRest

\* getPageContent settles: on a rejection or an empty content indexPage sends
\* 'error'; else processPageContent runs up to its fetch, and when it returns
\* without one indexPage sends 'completed'
ContentResponse(url, ok) ==
  LET p     == processPageContent(confidentialSites, url)
      calls == IF ~ok THEN <<Msg("error", "No content extracted from page")>>
               ELSE IF p = "return" THEN <<Msg("completed", "")>>
               ELSE << >>
      s     == sendEach(indexingInProgress, url, calls, 1, {})
  IN  /\ runs[Run("tab", "content", url)] > 0
      /\ indexingInProgress' = s.inProgress
      /\ IF ok /\ p = "fetch"
         THEN RunMoves(Run("tab", "content", url), Run("tab", "indexing", url))
         ELSE RunEnds(Run("tab", "content", url))
      /\ op' = Step("indexPage", url,
                    IF ~ok THEN "contentFailed"
                    ELSE IF p = "return" THEN "confidentialAtProcess" ELSE "indexRequest",
                    s.sent, FALSE, ok /\ p = "fetch")
      /\ UNCHANGED bgRest

\* the answer of /index arrives ("failure" is success = false or a network
\* error): processPageContent returns a result, indexPage sends 'completed'
IndexResponse(url, result) ==
  LET s == sendEach(indexingInProgress, url, <<Msg("completed", "")>>, 1, {})
  IN  /\ runs[Run("tab", "indexing", url)] > 0
      /\ indexingInProgress' = s.inProgress
      /\ RunEnds(Run("tab", "indexing", url))
      /\ op' = Step("indexPage", url, result, s.sent, FALSE, FALSE)
      /\ UNCHANGED bgRest

\* the 'processPage' message: processPageContent(message.url, message.content)
ProcessPageMessage(url) ==
  LET p == processPageContent(confidentialSites, url)
  IN  /\ ActiveRuns < MaxRuns
      /\ IF p = "fetch"
         THEN RunStarts(Run("processPage", "indexing", url))
         ELSE UNCHANGED runs
      /\ op' = Step("processPage", url,
                    IF p = "fetch" THEN "indexRequest" ELSE "confidentialAtProcess",
                    {}, FALSE, p = "fetch")
      /\ UNCHANGED <<indexingInProgress, bgRest>>

\* the answer of /index to a 'processPage' request: sendResponse(result)
ProcessPageResponse(url, result) ==
  /\ runs[Run("processPage", "indexing", url)] > 0
  /\ RunEnds(Run("processPage", "indexing", url))
  /\ op' = Step("processPage", url, result, {}, FALSE, FALSE)
  /\ UNCHANGED <<indexingInProgress, bgRest>>

\* the timer of sendIndexingStatus: indexingInProgress.delete(statusKey)
StatusTimerFired(key) ==
  /\ key \in indexingInProgress
  /\ indexingInProgress' = indexingInProgress \ {key}
  /\ op' = NoOp
  /\ UNCHANGED <<runs, bgRest>>

\* the popup saves an edited list
SitesEdited == \E newSites \in EditedLists : updateConfidentialSites(newSites)

IndexResults == {"success", "failure"}

Next ==
  \/ SitesEdited
  \/ \E kind \in {"tab", "message"}, tab \in Tabs : IndexPage(kind, tab)
  \/ \E kind \in {"tab", "message"}, url \in IndexUrls,
        resp \in {"failed", "indexed", "notIndexed"} : CheckIndexedResponse(kind, url, resp)
  \/ \E url \in IndexUrls, ok \in BOOLEAN : ContentResponse(url, ok)
  \/ \E url \in IndexUrls, result \in IndexResults : IndexResponse(url, result)
  \/ \E url \in PageUrls : ProcessPageMessage(url)
  \/ \E url \in PageUrls, result \in IndexResults : ProcessPageResponse(url, result)
  \/ \E key \in indexingInProgress : StatusTimerFired(key)

Spec == Init /\ [][Next]_vars

\* the keys of indexingInProgress
StatusKeys == IndexUrls \X {"started", "completed", "error", "skipped"}

\* the runs of indexPage, which are the callers of sendIndexingStatus
NextTimers ==
  \/ SitesEdited
  \/ \E kind \in {"tab", "message"}, tab \in Tabs : IndexPage(kind, tab)
  \/ \E kind \in {"tab", "message"}, url \in IndexUrls,
        resp \in {"failed", "indexed", "notIndexed"} : CheckIndexedResponse(kind, url, resp)
  \/ \E url \in IndexUrls, ok \in BOOLEAN : ContentResponse(url, ok)
  \/ \E url \in IndexUrls, result \in IndexResults : IndexResponse(url, result)
  \/ \E key \in indexingInProgress : StatusTimerFired(key)

\* every timer set by sendIndexingStatus fires
SpecTimers ==
  Init /\ [][NextTimers]_vars /\ \A key \in StatusKeys : WF_vars(StatusTimerFired(key))

----------------------------------------------------------------------------
(* Search: performSearch of the popup, the 'search' message handler and     *)
(* searchIndex of the background script.  One search runs at a time.        *)

\* String.prototype.trim on a string of letters and spaces
RECURSIVE TrimStart(_)
TrimStart(str) ==
  IF str # << >> /\ Head(str) = " " THEN TrimStart(Tail(str)) ELSE str

RECURSIVE TrimEnd(_)
TrimEnd(str) ==
  IF str # << >> /\ str[Len(str)] = " "
  THEN TrimEnd(SubSeq(str, 1, Len(str) - 1)) ELSE str

Trim(str) == TrimEnd(TrimStart(str))

SearchLimit == 10

\* the body of the request of searchIndex(query)
searchRequestBody(query) == [query |-> query, limit |-> SearchLimit]

\* result.results.filter(...) of searchIndex: an item is dropped when its url
\* was seen before or contains 'example.com/test'
RECURSIVE filterResults(_, _, _)
filterResults(results, i, seenUrls) ==
  IF i > Len(results) THEN << >>
  ELSE IF results[i].url \in seenUrls \/ Includes(results[i].url, TestDataPattern)
       THEN filterResults(results, i + 1, seenUrls)
       ELSE <<results[i]>> \o filterResults(results, i + 1, seenUrls \cup {results[i].url})

\* searchIndex(query) from the answer of /search on: the filtered results of
\* a successful answer; every failure is caught and [] returned
searchIndex(outcome, results) ==
  IF outcome = "ok" THEN filterResults(results, 1, {}) ELSE << >>

\* the 'search' handler: searchIndex(...).then(results => sendResponse({results}))
searchReply(outcome, results) == [results |-> searchIndex(outcome, results)]

\* position of the first item of acc with the url, 0 when there is none
FindUrl(acc, url) ==
  IF \E i \in 1..Len(acc) : acc[i].url = url
  THEN CHOOSE i \in 1..Len(acc) :
         acc[i].url = url /\ \A j \in 1..(i - 1) : acc[j].url # url
  ELSE 0

\* response.results.reduce(...) of performSearch: one item for each url, a later
\* item replacing the kept one when its score is higher
RECURSIVE uniqueResults(_, _, _)
uniqueResults(results, i, acc) ==
  IF i > Len(results) THEN acc
  ELSE LET current == results[i]
           at      == FindUrl(acc, current.url)
       IN  uniqueResults(results, i + 1,
             IF at = 0 THEN Append(acc, current)
             ELSE IF current.score > acc[at].score THEN [acc EXCEPT ![at] = current]
             ELSE acc)

\* uniqueResults.sort((a, b) => (b.score || 0) - (a.score || 0)): stable
RECURSIVE InsertByResultScore(_, _)
InsertByResultScore(sorted, x) ==
  IF sorted = << >> THEN <<x>>
  ELSE IF Head(sorted).score >= x.score
       THEN <<Head(sorted)>> \o InsertByResultScore(Tail(sorted), x)
       ELSE <<x>> \o sorted

RECURSIVE SortByResultScore(_, _)
SortByResultScore(items, n) ==
  IF n = 0 THEN << >>
  ELSE InsertByResultScore(SortByResultScore(items, n - 1), items[n])

\* mutant of prefsContext: a failed preferences request ends the search
prefsContextOrThrow(outcome, preferences) ==
  IF outcome \in PrefsFailures THEN [threw |-> TRUE, userContext |-> EmptyContext]
  ELSE [threw |-> FALSE, userContext |-> preferences]

\* the preferences block of performSearch: userContext is the preferences of
\* a successful answer and {} after every failure, which is caught
prefsContext(outcome, preferences) ==
  IF outcome \in PrefsFailures THEN [threw |-> FALSE, userContext |-> EmptyContext]
  ELSE [threw |-> FALSE, userContext |-> preferences]

\* mutant of queryOf: the text of the box is used as it is
queryOfUntrimmed(input) == input

\* const query = searchInput.value.trim()
queryOf(input) == Trim(input)

searchRest ==
  <<confidentialSites, stSites, bgVars, libVars, storeVars, pre, sitesRead,
    pending, contentPage, lastSites>>

\* performSearch() up to its first request: an empty query is answered in the
\* result area; else checkBackendStatus() fetches /health
PerformSearch(input) ==
  LET query == queryOf(input)
  IN  /\ popup.search.pc = "idle"
      /\ IF query = << >>
         THEN /\ popup' = [popup EXCEPT
                             !.searchResults = Shown("Please enter a search query.", << >>)]
              /\ op' = [kind |-> "performSearch", input |-> input, requests |-> {}]
         ELSE /\ popup' = [popup EXCEPT
                             !.search = [NoSearch EXCEPT !.pc = "health", !.query = query]]
              /\ op' = [kind |-> "performSearch", input |-> input,
                        requests |-> {"health"}]
      /\ UNCHANGED searchRest

\* the answer of /health: the status line is set; when the service is down an
\* alert is shown and performSearch returns, else the preferences are requested
HealthResponse(ok) ==
  /\ popup.search.pc = "health"
  /\ popup' = IF ok
              THEN [popup EXCEPT !.backendStatus = "LLM Service: ON",
                                 !.searchResults = Shown("Searching...", << >>),
                                 !.search.pc = "prefs"]
              ELSE [popup EXCEPT !.backendStatus = "LLM Service: OFF",
                                 !.search = NoSearch]
  /\ op' = [kind |-> "checkBackendStatus", ok |-> ok,
            requests |-> IF ok THEN {"preferences"} ELSE {}]
  /\ UNCHANGED searchRest

\* the answer of /preferences, then chrome.runtime.sendMessage of the search
PrefsResponse(outcome, preferences) ==
  LET c == prefsContext(outcome, preferences)
  IN  /\ popup.search.pc = "prefs"
      /\ IF c.threw
         THEN /\ popup' = [popup EXCEPT !.search = NoSearch,
                                        !.searchStats = Shown("Error: ", << >>)]
              /\ op' = [kind |-> "preferences", outcome |-> outcome, sent |-> FALSE]
         ELSE /\ popup' = [popup EXCEPT !.search.pc = "message",
                                        !.search.userContext = c.userContext]
              /\ op' = [kind |-> "preferences", outcome |-> outcome, sent |-> TRUE,
                        message |-> [action |-> "search", query |-> popup.search.query,
                                     user_context |-> c.userContext]]
      /\ UNCHANGED searchRest

\* the background receives the 'search' message: searchIndex(message.query)
\* up to its fetch of /search
SearchMessage ==
  /\ popup.search.pc = "message"
  /\ popup' = [popup EXCEPT !.search.pc = "backend"]
  /\ op' = [kind |-> "searchRequest",
            message |-> [action |-> "search", query |-> popup.search.query,
                         user_context |-> popup.search.userContext],
            request |-> searchRequestBody(popup.search.query)]
  /\ UNCHANGED searchRest

\* the answer of /search arrives: searchIndex returns, sendResponse({results})
SearchResponse(outcome, results) ==
  LET reply == searchReply(outcome, results)
  IN  /\ popup.search.pc = "backend"
      /\ popup' = [popup EXCEPT !.search.pc = "reply",
                                !.search.outcome = outcome,
                                !.search.backendResults = results,
                                !.search.reply = reply]
      /\ op' = [kind |-> "searchIndex", outcome |-> outcome, reply |-> reply]
      /\ UNCHANGED searchRest

\* performSearch gets the reply: the results are made unique, sorted and shown
SearchReply ==
  LET reply == popup.search.reply
      shown == IF "results" \in DOMAIN reply
               THEN LET u == uniqueResults(reply.results, 1, << >>)
                    IN  SortByResultScore(u, Len(u))
               ELSE << >>
  IN  /\ popup.search.pc = "reply"
      /\ popup' = IF "results" \in DOMAIN reply
                  THEN [popup EXCEPT !.search = NoSearch,
                                     !.searchResults = Shown("", shown),
                                     !.searchStats = Shown("Found unique results", shown)]
                  ELSE [popup EXCEPT !.search = NoSearch,
                                     !.searchStats = Shown("No results found", << >>)]
      /\ op' = [kind |-> "searchDisplayed", outcome |-> popup.search.outcome,
                backendResults |-> popup.search.backendResults,
                displayed |-> shown]
      /\ UNCHANGED searchRest

NextSearch ==
  \/ \E input \in QueryInputs : PerformSearch(input)
  \/ \E ok \in BOOLEAN : HealthResponse(ok)
  \/ \E outcome \in PrefsFailures \cup {"ok"}, preferences \in Preferences :
        PrefsResponse(outcome, preferences)
  \/ SearchMessage
  \/ \E outcome \in SearchFailures : SearchResponse(outcome, << >>)
  \/ \E results \in ResultLists : SearchResponse("ok", results)
  \/ SearchReply

SpecSearch == Init /\ [][NextSearch]_vars

\* the two entry points that validate their input, each followed to the end
\* of its shortest course
NextInput ==
  \/ \E input \in QueryInputs : PerformSearch(input)
  \/ \E ok \in BOOLEAN : HealthResponse(ok)
  \/ \E outcome \in PrefsFailures \cup {"ok"}, preferences \in Preferences :
        PrefsResponse(outcome, preferences)
  \/ SearchMessage
  \/ \E outcome \in SearchFailures : SearchResponse(outcome, << >>)
  \/ SearchReply
  \/ \E kind \in {"tab", "message"}, tab \in Tabs : IndexPage(kind, tab)
  \/ \E kind \in {"tab", "message"}, url \in IndexUrls :
        CheckIndexedResponse(kind, url, "indexed")
  \/ \E key \in indexingInProgress : StatusTimerFired(key)

SpecInput == Init /\ [][NextInput]_vars

----------------------------------------------------------------------------
(* Categories: loadAvailableCategories, updateCategoryList and              *)
(* removeCategory of the popup.                                             *)

\* String.prototype.toLowerCase
LowerCaseOf(c) == IF c = "O" THEN "o" ELSE IF c = "T" THEN "t" ELSE c

toLowerCase(str) == [i \in DOMAIN str |-> LowerCaseOf(str[i])]

CategoryFailures == {"networkError", "httpStatus", "successFalse", "notArray"}

\* mutant of withOthers: the list of the backend is taken as it is
withOthersAsGiven(categories) == categories

\* availableCategories = result.categories, and 'Others' is pushed when the
\* list does not include it
withOthers(categories) ==
  IF \E i \in 1..Len(categories) : categories[i] = Others
  THEN categories ELSE Append(categories, Others)

\* the items updateCategoryList() builds: a name and a Remove button, which
\* is disabled when category.toLowerCase() === 'others'
categoryItems(categories) ==
  [i \in 1..Len(categories) |->
     [category |-> categories[i],
      disabled |-> toLowerCase(categories[i]) = toLowerCase(Others)]]

\* a call of loadAvailableCategories() up to its fetch of /api/categories
LoadCategoriesCalled ==
  /\ popup.loading < MaxPending
  /\ popup' = [popup EXCEPT !.loading = @ + 1]
  /\ op' = [kind |-> "loadAvailableCategories", event |-> "requested"]
  /\ UNCHANGED searchRest

\* the answer of GET /api/categories: a list is assigned, completed with
\* 'Others' and displayed; every failure leaves the list as it was
CategoriesResponse(outcome, categories) ==
  /\ popup.loading > 0
  /\ popup' =
       IF outcome \in CategoryFailures
       THEN [popup EXCEPT !.loading = @ - 1]
       ELSE [popup EXCEPT !.loading = @ - 1,
                          !.availableCategories = withOthers(categories),
                          !.categoryList = categoryItems(withOthers(categories))]
  /\ op' = [kind |-> "loadAvailableCategories", event |-> outcome]
  /\ UNCHANGED searchRest

\* updateCategoryList() when the preferences tab is shown
UpdateCategoryList ==
  /\ popup' = [popup EXCEPT !.categoryList = categoryItems(popup.availableCategories)]
  /\ op' = [kind |-> "updateCategoryList", event |-> "shown"]
  /\ UNCHANGED searchRest

\* the user presses the Remove button of item i and answers the confirm
\* dialog: a disabled button dispatches no click; else removeCategory(category)
\* runs up to its DELETE request
RemoveClicked(i, confirmed) ==
  LET item == popup.categoryList[i]
      sent == ~item.disabled /\ confirmed
  IN  /\ i \in 1..Len(popup.categoryList)
      /\ popup.removing < MaxPending
      /\ popup' = IF sent THEN [popup EXCEPT !.removing = @ + 1] ELSE popup
      /\ op' = [kind |-> "removeCategory", category |-> item.category,
                event |-> IF sent THEN "requested" ELSE "none"]
      /\ UNCHANGED searchRest

\* the answer of DELETE /api/categories: after a success the categories are
\* loaded again
RemoveResponse(ok) ==
  /\ popup.removing > 0
  /\ ok => popup.loading < MaxPending
  /\ popup' = [popup EXCEPT !.removing = @ - 1,
                            !.loading = IF ok THEN @ + 1 ELSE @]
  /\ op' = [kind |-> "removeCategory", category |-> << >>,
            event |-> IF ok THEN "removed" ELSE "failed"]
  /\ UNCHANGED searchRest

NextCategories ==
  \/ LoadCategoriesCalled
  \/ \E outcome \in CategoryFailures : CategoriesResponse(outcome, << >>)
  \/ \E categories \in CategoryLists : CategoriesResponse("ok", categories)
  \/ UpdateCategoryList
  \/ \E i \in 1..(MaxCategories + 1), confirmed \in BOOLEAN : RemoveClicked(i, confirmed)
  \/ \E ok \in BOOLEAN : RemoveResponse(ok)

SpecCategories == Init /\ [][NextCategories]_vars

----------------------------------------------------------------------------
(* Status: the indexing_status messages the popup receives, updateStatus    *)
(* and its reset timer.                                                     *)

StatusNames  == {"started", "completed", "error", "skipped"}
\* message.error: none, the two reasons of a skip, a reason of an error
StatusErrors ==
  {"", "Page already indexed", "This is a confidential site",
   "No content extracted from page"}

\* the switch of updateStatus(status, url, error): what is displayed, and
\* whether setTimeout(reset, NOTIFICATION_DURATION) is called
updateStatus(status, error) ==
  CASE status = "started" ->
         [shown |-> StatusShown("indexing", "Indexing page...", ""), timer |-> FALSE]
    [] status = "completed" ->
         [shown |-> StatusShown("completed", "Page indexed successfully!", ""),
          timer |-> FALSE]
    [] status = "error" ->
         [shown |-> StatusShown("error", "Error indexing page", error), timer |-> FALSE]
    [] status = "skipped" ->
         [shown |-> StatusShown("skipped", "Page skipped", error), timer |-> TRUE]
    [] OTHER -> [shown |-> IdleStatus, timer |-> FALSE]

\* an indexing_status message arrives: handleIndexingStatus calls updateStatus
StatusMessage(status, error) ==
  LET u == updateStatus(status, error)
  IN  /\ popup.received < MaxMessages
      /\ u.timer => popup.resetTimers < MaxTimers
      /\ popup' = [popup EXCEPT !.status = u.shown,
                                !.resetTimers = IF u.timer THEN @ + 1 ELSE @,
                                !.received = @ + 1]
      /\ op' = [kind |-> "updateStatus", status |-> status, error |-> error]
      /\ UNCHANGED searchRest

\* a timer of updateStatus fires: the display is reset to idle
StatusResetTimer ==
  /\ popup.resetTimers > 0
  /\ popup' = [popup EXCEPT !.status = IdleStatus, !.resetTimers = @ - 1]
  /\ op' = [kind |-> "statusReset", status |-> "idle", error |-> ""]
  /\ UNCHANGED searchRest

NextStatus ==
  \/ \E status \in StatusNames, error \in StatusErrors : StatusMessage(status, error)
  \/ StatusResetTimer

\* a timer that was set fires; no message has to arrive
SpecStatus == Init /\ [][NextStatus]_vars /\ WF_vars(StatusResetTimer)

----------------------------------------------------------------------------
(* Preferences form: the settings tab is opened (or the popup loads), which *)
(* starts initializeCategoryCheckboxes and loadUserPreferences together.    *)

\* the category lists the backend answers with, and the saved prefs.categories
FormCategoryLists == {<< <<"s">> >>, << <<"s">>, Others >>, << Others, <<"s">> >>}
SavedCategoryLists == {<< >>, << <<"s">> >>, << Others >>, << <<"s">>, Others >>}

\* the id of the checkbox of a category: category.toLowerCase() with the
\* blanks replaced
checkboxId(category) == toLowerCase(category)

\* categories.forEach of initializeCategoryCheckboxes: one unchecked box each
newCheckboxes(categories) ==
  [i \in 1..Len(categories) |-> [value |-> categories[i], checked |-> FALSE]]

\* prefs.categories.forEach of loadUserPreferences: getElementById finds the
\* first box with the id and checks it; a category without a box is left out
RECURSIVE checkSaved(_, _, _)
checkSaved(boxes, saved, k) ==
  IF k > Len(saved) THEN boxes
  ELSE LET ids == {i \in 1..Len(boxes) :
                     checkboxId(boxes[i].value) = checkboxId(saved[k])}
       IN  IF ids = {} THEN checkSaved(boxes, saved, k + 1)
           ELSE LET i == CHOOSE x \in ids : \A y \in ids : x <= y
                IN  checkSaved([boxes EXCEPT ![i].checked = TRUE], saved, k + 1)

\* the settings tab is clicked (or DOMContentLoaded fires): both loads are
\* called and run up to their fetch
SettingsOpened ==
  /\ popup.boxesLoad # "pending"
  /\ popup.prefsLoad # "pending"
  /\ popup' = [popup EXCEPT !.boxesLoad = "pending", !.prefsLoad = "pending"]
  /\ op' = [kind |-> "settingsOpened", outcome |-> "none"]
  /\ UNCHANGED searchRest

\* the answer of /api/categories to initializeCategoryCheckboxes:
\* loadAvailableCategories returns the list, the container is emptied and
\* filled with one box for each category, then updateCategoryList() runs
CheckboxesLoaded(outcome, categories) ==
  LET available == IF outcome \in CategoryFailures THEN popup.availableCategories
                   ELSE withOthers(categories)
  IN  /\ popup.boxesLoad = "pending"
      /\ popup' = [popup EXCEPT !.boxesLoad = "done",
                                !.availableCategories = available,
                                !.categoryList = categoryItems(available),
                                !.checkboxes = newCheckboxes(available)]
      /\ op' = [kind |-> "initializeCategoryCheckboxes", outcome |-> outcome]
      /\ UNCHANGED searchRest

\* the answer of /api/preferences to loadUserPreferences: after a success the
\* boxes of the saved categories are checked
PreferencesLoaded(outcome, saved) ==
  /\ popup.prefsLoad = "pending"
  /\ popup' = IF outcome \in PrefsFailures
              THEN [popup EXCEPT !.prefsLoad = "failed"]
              ELSE [popup EXCEPT !.prefsLoad = "done",
                                 !.prefsCategories = saved,
                                 !.checkboxes = checkSaved(@, saved, 1)]
  /\ op' = [kind |-> "loadUserPreferences", outcome |-> outcome]
  /\ UNCHANGED searchRest

NextForm ==
  \/ SettingsOpened
  \/ \E outcome \in CategoryFailures : CheckboxesLoaded(outcome, << >>)
  \/ \E categories \in FormCategoryLists : CheckboxesLoaded("ok", categories)
  \/ \E outcome \in PrefsFailures : PreferencesLoaded(outcome, << >>)
  \/ \E saved \in SavedCategoryLists : PreferencesLoaded("ok", saved)

SpecForm == Init /\ [][NextForm]_vars

----------------------------------------------------------------------------
(* Notifications: addNotification of the popup, the close button and the   *)
(* auto-hide timer of a notification.  The area lists its notifications    *)
(* from the top; a notification is named by the number of its call.        *)

NOTIFICATION_DURATION     == 3000
MAX_VISIBLE_NOTIFICATIONS == 3

\* the rule of NOTIFICATION_RULES a message falls under
MessageRules == {"suppress", "persistent", "routine", "quickSuccess", "info", "none"}

\* let autoHideDuration = NOTIFICATION_DURATION, replaced by the duration of
\* the first rule with a keyword in the message
autoHideDuration(rule) ==
  CASE rule = "persistent"   -> 10000
    [] rule = "routine"      -> 1000
    [] rule = "quickSuccess" -> 2000
    [] rule = "info"         -> 3000
    [] OTHER                 -> NOTIFICATION_DURATION

\* mutant of addNotification: the notification at the top makes room
addNotificationDropNewest(area, id, rule) ==
  IF rule = "suppress" THEN area
  ELSE LET kept == IF Len(area) >= MAX_VISIBLE_NOTIFICATIONS THEN Tail(area) ELSE area
       IN  <<[id |-> id, timer |-> autoHideDuration(rule) < 10000]>> \o kept

\* addNotification(message, type): nothing for a suppressed message; else the
\* last notification of the area is removed when the area holds
\* MAX_VISIBLE_NOTIFICATIONS or more, the new one is inserted before the
\* first, and its timer is set when autoHideDuration < 10000
addNotification(area, id, rule) ==
  IF rule = "suppress" THEN area
  ELSE LET kept == IF Len(area) >= MAX_VISIBLE_NOTIFICATIONS
                   THEN SubSeq(area, 1, Len(area) - 1) ELSE area
       IN  <<[id |-> id, timer |-> autoHideDuration(rule) < 10000]>> \o kept

RemoveAt(seq, i) == SubSeq(seq, 1, i - 1) \o SubSeq(seq, i + 1, Len(seq))

\* a call of addNotification
AddNotification(rule) ==
  /\ popup.notified < MaxNotified
  /\ popup' = [popup EXCEPT
       !.notified = @ + 1,
       !.notifications = addNotification(@, popup.notified + 1, rule)]
  /\ op' = [kind |-> "addNotification", rule |-> rule]
  /\ UNCHANGED searchRest

\* close.onclick: notification.remove()
NotificationClosed(i) ==
  /\ i \in 1..Len(popup.notifications)
  /\ popup' = [popup EXCEPT !.notifications = RemoveAt(@, i)]
  /\ op' = [kind |-> "notificationClosed", rule |-> "none"]
  /\ UNCHANGED searchRest

\* the auto-hide timer of a notification that is still in the area
NotificationTimer(i) ==
  /\ i \in 1..Len(popup.notifications)
  /\ popup.notifications[i].timer
  /\ popup' = [popup EXCEPT !.notifications = RemoveAt(@, i)]
  /\ op' = [kind |-> "notificationTimer", rule |-> "none"]
  /\ UNCHANGED searchRest

NextNotify ==
  \/ \E rule \in MessageRules : AddNotification(rule)
  \/ \E i \in 1..MAX_VISIBLE_NOTIFICATIONS : NotificationClosed(i)
  \/ \E i \in 1..MAX_VISIBLE_NOTIFICATIONS : NotificationTimer(i)

SpecNotify == Init /\ [][NextNotify]_vars

----------------------------------------------------------------------------
(* Indexing attempts during the load of the background script: the script   *)
(* calls initializeExtension() in its first turn and does not wait for it,  *)
(* and its listeners call indexPage and processPageContent at once.         *)

\* the first turn of the script has run: initializeExtension() is under way
ScriptLoaded ==
  tasks[Task("init", "loadSites", 0)] + tasks[Task("init", "loadIndex", 0)] > 0

\* the list loadConfidentialSites yields: the stored one, else the default
LoadedList == loadConfidentialSites(stSites).sites

NextEarly ==
  \/ ~ScriptLoaded /\ StartInit
  \/ InitSitesLoaded
  \/ Restart
  \/ ScriptLoaded /\ \E kind \in {"tab", "message"}, tab \in Tabs : IndexPage(kind, tab)
  \/ \E kind \in {"tab", "message"}, url \in IndexUrls,
        resp \in {"failed", "indexed", "notIndexed"} : CheckIndexedResponse(kind, url, resp)
  \/ \E url \in IndexUrls, ok \in BOOLEAN : ContentResponse(url, ok)
  \/ \E url \in IndexUrls, result \in IndexResults : IndexResponse(url, result)
  \/ ScriptLoaded /\ \E url \in PageUrls : ProcessPageMessage(url)
  \/ \E url \in PageUrls, result \in IndexResults : ProcessPageResponse(url, result)
  \/ \E key \in indexingInProgress : StatusTimerFired(key)

SpecEarly == Init /\ [][NextEarly]_vars

----------------------------------------------------------------------------
(* Highlighting: the content script of a page (its start, highlightText,    *)
(* the MutationObserver on document.body), the getPendingHighlight handler  *)
(* of the background, and the two keys the popup stores.                    *)

pageRest ==
  <<confidentialSites, stSites, bgVars, libVars, storeVars, pre, popup,
    sitesRead, pending, lastSites>>

\* the highlight checkbox of the popup: storage.set({highlightEnabled})
HighlightToggled(checked) ==
  /\ contentPage.highlightEnabled # checked
  /\ contentPage' = [contentPage EXCEPT !.highlightEnabled = checked]
  /\ op' = [kind |-> "highlightToggled"]
  /\ UNCHANGED pageRest

\* performSearch opens a result: storage.set({pendingHighlight: {text: query}});
\* no code removes the key
PendingHighlightStored ==
  /\ ~contentPage.pendingHighlight
  /\ contentPage' = [contentPage EXCEPT !.pendingHighlight = TRUE]
  /\ op' = [kind |-> "pendingHighlightStored"]
  /\ UNCHANGED pageRest

\* the content script starts in a page with some occurrences of the text:
\* the observer is set up, and once the extension answers the ping and init
\* messages getPendingHighlight is sent
ContentScriptStarted(matches) ==
  /\ ~contentPage.started
  /\ contentPage' = [contentPage EXCEPT !.started = TRUE, !.matches = matches, !.requests = 1]
  /\ op' = [kind |-> "contentScriptStarted"]
  /\ UNCHANGED pageRest

\* the page changes its own content under document.body: the observer gets
\* a record
PageMutated(matches) ==
  /\ contentPage.started
  /\ contentPage.mutations < MaxMutations
  /\ contentPage' = [contentPage EXCEPT !.matches = matches, !.mutations = @ + 1,
                          !.observer = TRUE]
  /\ op' = [kind |-> "pageMutated"]
  /\ UNCHANGED pageRest

\* the callback of the MutationObserver, with all records since the last
\* one: getPendingHighlight is sent
ObserverCallback ==
  /\ contentPage.observer
  /\ contentPage' = [contentPage EXCEPT !.observer = FALSE, !.requests = @ + 1]
  /\ op' = [kind |-> "observerCallback"]
  /\ UNCHANGED pageRest

\* the background answers getPendingHighlight with the stored object or with
\* {text: null}; with a text the content script calls highlightText, which
\* calls storage.get of highlightEnabled
PendingHighlightAnswered ==
  /\ contentPage.requests > 0
  /\ contentPage' = [contentPage EXCEPT !.requests = @ - 1,
                          !.reads = IF contentPage.pendingHighlight THEN @ + 1 ELSE @]
  /\ op' = [kind |-> "getPendingHighlight"]
  /\ UNCHANGED pageRest

\* the storage callback of highlightText(searchText): nothing when
\* highlighting is disabled; else removeHighlights() replaces every span by
\* a text node, and every occurrence of the text is put into a new span.
\* changed tells whether a node under document.body was replaced
highlightText(enabled, spans, matches) ==
  IF ~enabled THEN [spans |-> spans, changed |-> FALSE]
  ELSE [spans |-> matches, changed |-> spans > 0 \/ matches > 0]

HighlightRead ==
  LET r == highlightText(contentPage.highlightEnabled, contentPage.spans, contentPage.matches)
  IN  /\ contentPage.reads > 0
      /\ contentPage' = [contentPage EXCEPT !.reads = @ - 1, !.spans = r.spans,
                              !.observer = @ \/ r.changed]
      /\ op' = [kind |-> "highlightText"]
      /\ UNCHANGED pageRest

NextHighlight ==
  \/ \E checked \in BOOLEAN : HighlightToggled(checked)
  \/ PendingHighlightStored
  \/ \E matches \in 0..MaxMatches : ContentScriptStarted(matches)
  \/ \E matches \in 0..MaxMatches : PageMutated(matches)
  \/ ObserverCallback
  \/ PendingHighlightAnswered
  \/ HighlightRead

\* every callback that is due runs
SpecHighlight ==
  /\ Init /\ [][NextHighlight]_vars
  /\ WF_vars(ObserverCallback)
  /\ WF_vars(PendingHighlightAnswered)
  /\ WF_vars(HighlightRead)

----------------------------------------------------------------------------
(* Pending messages: the callbacks of sendIndexingStatus and indexPage that *)
(* store an undelivered status message, and the onConnect listener.         *)
(* chrome.storage.local serves its calls in the order they were made: a get *)
(* reads what the sets made before it have written.                         *)

pendingRest ==
  <<confidentialSites, stSites, bgVars, libVars, storeVars, pre, popup,
    sitesRead, contentPage, lastSites>>

\* the callback of chrome.runtime.sendMessage finds lastError: storage.get of
\* pendingMessages is called for the message
DeliveryFailed ==
  /\ pending.made < MaxFailed
  /\ pending' = [pending EXCEPT
       !.made = @ + 1,
       !.gets = Append(@, [kind |-> "store", message |-> pending.made + 1,
                           read |-> pending.stored])]
  /\ op' = [kind |-> "deliveryFailed", message |-> pending.made + 1]
  /\ UNCHANGED pendingRest

\* the popup connects: the onConnect listener calls storage.get of
\* pendingMessages; one popup page is open at a time
PopupConnected ==
  /\ \A i \in 1..Len(pending.gets) : pending.gets[i].kind # "connect"
  /\ pending' = [pending EXCEPT
       !.gets = Append(@, [kind |-> "connect", message |-> 0,
                           read |-> pending.stored])]
  /\ op' = [kind |-> "popupConnected", message |-> 0]
  /\ UNCHANGED pendingRest

\* the callback of storage.get: result.pendingMessages || [] gets the message
\* pushed and is set; on a connection every message read is posted to the
\* port and [] is set, and nothing is done when none was read
afterPendingRead(get) ==
  IF get.kind = "store"
  THEN [write |-> TRUE, stored |-> Append(get.read, get.message), posted |-> << >>]
  ELSE IF get.read # << >>
  THEN [write |-> TRUE, stored |-> << >>, posted |-> get.read]
  ELSE [write |-> FALSE, stored |-> << >>, posted |-> << >>]

\* the oldest storage.get calls back
PendingRead ==
  /\ pending.gets # << >>
  /\ LET r == afterPendingRead(Head(pending.gets))
     IN  pending' = [pending EXCEPT
           !.gets = Tail(@),
           !.stored = IF r.write THEN r.stored ELSE @,
           !.posted = @ \o r.posted]
  /\ op' = [kind |-> "pendingRead", message |-> Head(pending.gets).message]
  /\ UNCHANGED pendingRest

NextPending == DeliveryFailed \/ PopupConnected \/ PendingRead

SpecPending == Init /\ [][NextPending]_vars

----------------------------------------------------------------------------
(* Properties *)

\* positions of the patterns of the list that occur in the hostname or in
\* the pathname of a parsed url
Hits(sites, u) ==
  {i \in 1..Len(sites) : Includes(u.hostname, sites[i]) \/ Includes(u.pathname, sites[i])}

\* C2: the answer of isConfidentialSite is the reference predicate: for a url
\* that parses, confidential exactly when some pattern of the list occurs in
\* the hostname or the pathname, matchedPattern the first such pattern in list
\* order and null when there is none; for a url that does not parse,
\* confidential.
C2_MatchesReference ==
  op.kind = "testConfidentialSite" =>
    LET u    == ParseURL(op.url)
        hits == Hits(confidentialSites, u)
    IN  IF ~u.ok THEN op.result.isConfidential
        ELSE /\ op.result.isConfidential = (hits # {})
             /\ hits = {} => op.result.matchedPattern = << >>
             /\ hits # {} =>
                  op.result.matchedPattern =
                    <<confidentialSites[CHOOSE i \in hits : \A j \in hits : i <= j]>>

\* C2 witness: a url whose pathname alone matches, by the second pattern of the list
C2_Witness ==
  /\ op.kind = "testConfidentialSite"
  /\ ParseURL(op.url).ok
  /\ Len(confidentialSites) = 2
  /\ op.result.isConfidential
  /\ op.result.matchedPattern = <<confidentialSites[2]>>
  /\ ~Includes(ParseURL(op.url).hostname, confidentialSites[2])

StoredIds(blob) == {ParseInt(blob.vectors[i].key) : i \in 1..Len(blob.vectors)}

\* C3: the ids stored in the vector index are the ids keyed in urlToDocMap, in
\* memory and in the stored pair (faissIndexData, urlToDocMap) whenever the
\* stored blob can be read.
C3_NoOrphans ==
  /\ DOMAIN vectors = DOMAIN urlToDocMap
  /\ (HasPair(stIndex) /\ stIndex[1].faissIndexData.parseable) =>
       StoredIds(stIndex[1].faissIndexData) = DOMAIN stIndex[1].urlToDocMap

\* C3 witness: a saved pair of at least three documents, and an addTestData
\* that has added a page to the index in memory and waits for an embedding
C3_Witness ==
  /\ HasPair(stIndex)
  /\ stIndex[1].faissIndexData.parseable
  /\ Cardinality(DOMAIN stIndex[1].urlToDocMap) >= 3
  /\ \E kind \in TaskKinds : tasks[Task(kind, "embed", 2)] > 0
  /\ Cardinality(DOMAIN vectors) >= 1

\* C4: no two entries of urlToDocMap carry the same url.
C4_UniqueUrls ==
  \A i, j \in DOMAIN urlToDocMap :
    i # j => urlToDocMap[i].url # urlToDocMap[j].url

Score(query, id) == cosineSimilarity(query, vectors[id])

\* C6: the ids search returns are in descending order of similarity to the
\* query, ids of equal similarity in ascending order, and no stored id left out
\* ranks before a returned one.
C6_SearchOrder ==
  op.kind = "search" =>
    LET r == op.result
        Before(x, y) ==
          \/ ScoreGt(Score(op.query, x), Score(op.query, y))
          \/ ScoreEq(Score(op.query, x), Score(op.query, y)) /\ x < y
    IN  /\ \A i, j \in 1..Len(r) : i < j => Before(r[i], r[j])
        /\ \A x \in DOMAIN vectors :
             (\A i \in 1..Len(r) : r[i] # x) => \A i \in 1..Len(r) : Before(r[i], x)

\* C6 witness: a search whose result holds two ids of equal similarity and a
\* third of another similarity
C6_Witness ==
  /\ op.kind = "search"
  /\ Len(op.result) >= 2
  /\ \E i, j \in 1..Len(op.result) :
       /\ i < j
       /\ ScoreEq(Score(op.query, op.result[i]), Score(op.query, op.result[j]))
  /\ \E i, j \in 1..Len(op.result) :
       ScoreGt(Score(op.query, op.result[i]), Score(op.query, op.result[j]))

\* C7: search on an empty index returns the empty sequence, and search with k
\* above the number of stored vectors returns every stored id exactly once, in
\* similarity order.
C7_SearchAll ==
  op.kind = "search" =>
    LET r == op.result
        n == Cardinality(DOMAIN vectors)
    IN  /\ n = 0 => r = << >>
        /\ op.k > n =>
             /\ Len(r) = n
             /\ {r[i] : i \in 1..Len(r)} = DOMAIN vectors
             /\ \A i, j \in 1..Len(r) :
                  i < j => ~ScoreGt(Score(op.query, r[j]), Score(op.query, r[i]))

\* C7 witness: a search with k above the size of an index of two vectors
C7_Witness ==
  /\ op.kind = "search"
  /\ Cardinality(DOMAIN vectors) >= 2
  /\ op.k > Cardinality(DOMAIN vectors)

MaxOf(S) == CHOOSE x \in S : \A y \in S : x >= y

\* C8: addWithIds without ids assigns consecutive ids from the highest stored
\* id + 1 on (from 0 for an empty index), none of them the id of a stored vector.
C8_SequentialIds ==
  (op.kind = "addWithIds" /\ ~op.hasIds) =>
    LET first == IF DOMAIN pre.vectors = {} THEN 0 ELSE MaxOf(DOMAIN pre.vectors) + 1
    IN  \A i \in 1..Len(op.addedIds) :
          /\ op.addedIds[i] = first + i - 1
          /\ op.addedIds[i] \notin DOMAIN pre.vectors

\* C9: deserializeIndex(serialize()) succeeds and leaves the id-to-vector
\* pairs and the next-id counter as they were, so every search answers as before.
C9_RoundTrip ==
  op.kind = "roundTrip" =>
    /\ op.ok
    /\ vectors = pre.vectors
    /\ nextId = pre.nextId
    /\ \A query \in Queries, k \in 0..MaxK :
         search(vectors, query, k) = search(pre.vectors, query, k)

\* C9 witness: a round trip of an index with an id of two digits and a
\* counter that has advanced
C9_Witness ==
  /\ op.kind = "roundTrip"
  /\ Cardinality(DOMAIN vectors) >= 2
  /\ \E id \in DOMAIN vectors : id >= 10
  /\ nextId > 0

\* C10: createIndex(d) with d <= 0 fails, creates no index and leaves the
\* stored vectors as they were.
C10_RejectsBadDimension ==
  (op.kind = "createIndex" /\ op.d <= 0) =>
    /\ ~op.ok
    /\ vectors = pre.vectors


\* C11: deserializeIndex of a blob that is malformed or carries no dimension
\* fails with an error and returns no index.
C11_RejectsBadBlob ==
  (op.kind = "deserializeIndex" /\ (op.malformed \/ op.noDimension)) => ~op.ok

\* C12: when initializeFaissIndex finds a stored part absent or the stored
\* blob fails to deserialize, it resolves (initializeExtension goes on to
\* addTestData) with a new empty index of dimension 384 and an empty urlToDocMap.
C12_LoadFallback ==
  (op.kind = "initializeFaissIndex" /\ op.fallback # "none") =>
    /\ faissIndex = [open |-> TRUE, ntotal |-> 0]
    /\ vectors = EmptyVectors
    /\ nextId = 0
    /\ dimensions = EmbeddingDimension
    /\ urlToDocMap = << >>
    /\ tasks[Task("init", "embed", 1)] > 0

\* C12 witness: a load that found a stored pair whose blob did not deserialize
C12_Witness ==
  /\ op.kind = "initializeFaissIndex"
  /\ op.fallback = "deserializeFailed"
  /\ HasPair(stIndex)
  /\ Cardinality(DOMAIN stIndex[1].urlToDocMap) >= 3

\* C12 witness of the other case: a load that found only one of the two keys
C12_WitnessAbsent ==
  /\ op.kind = "initializeFaissIndex"
  /\ op.fallback = "absent"
  /\ stIndex # << >>

\* C20: a step in which getEmbedding fails ends the call that waited for it
\* (the error leaves addTestData, no embedding is requested again) and leaves
\* the index and urlToDocMap, in memory and stored, as they were.
C20_NoActionOnEmbeddingFailure ==
  [][\A kind \in TaskKinds, page \in PageNos :
       EmbeddingFailed(kind, page) =>
         /\ vectors' = vectors
         /\ nextId' = nextId
         /\ faissIndex' = faissIndex
         /\ urlToDocMap' = urlToDocMap
         /\ stIndex' = stIndex
         /\ tasks' = [tasks EXCEPT ![Task(kind, "embed", page)] = @ - 1]]_vars

\* C20 witness: every call has ended, nothing was saved and the index holds
\* the first test page only: the embedding of the second page failed
C20_Witness ==
  /\ ActiveTasks = 0
  /\ stIndex = << >>
  /\ DOMAIN vectors = {0}
  /\ DOMAIN urlToDocMap = {0}
  /\ ~isInitialized

IndexingKinds == {"indexPage", "indexPageIndexed", "processPage"}

\* C1: a step of indexPage or of processPageContent that sends an index request
\* does so for a url that isConfidentialSite does not classify as confidential
\* against the list held at that step.
C1_NoConfidentialIndexRequest ==
  (op.kind \in IndexingKinds /\ op.indexRequested) =>
    ~isConfidentialSite(confidentialSites, op.url).isConfidential

\* C1 witness: a page passed the check of indexPage, the list changed while
\* its content was fetched, and processPageContent returned without a request
C1_Witness ==
  /\ op.kind = "indexPage"
  /\ op.event = "confidentialAtProcess"
  /\ ~op.indexRequested
  /\ isConfidentialSite(confidentialSites, op.url).isConfidential

AlreadyIndexedMsg == Msg("skipped", "Page already indexed")

\* C5 as stated: when the backend reports the url as indexed, indexPage sends
\* status 'skipped' with error 'Page already indexed', no status 'error', and
\* requests neither the page content nor an index.
C5_SkipAlwaysSent ==
  op.kind = "indexPageIndexed" =>
    /\ op.sent = {AlreadyIndexedMsg}
    /\ ~op.contentRequested
    /\ ~op.indexRequested

\* C5 amended: when the backend reports the url as indexed, indexPage sends
\* status 'skipped' with error 'Page already indexed', except that it sends
\* nothing while the key url-skipped is in indexingInProgress (a 'skipped'
\* status for the url was sent within the last second); it sends no other
\* status, requests neither the page content nor an index, and the run ends.
C5_BenignSkip ==
  [][op'.kind = "indexPageIndexed" =>
       /\ op'.sent = IF <<op'.url, "skipped">> \in indexingInProgress
                     THEN {} ELSE {AlreadyIndexedMsg}
       /\ ~op'.contentRequested
       /\ ~op'.indexRequested
       /\ op'.event = "alreadyIndexed"
       /\ \A x \in RunStates : runs'[x] <= runs[x]]_vars

\* C5 witness: the backend reported an indexed url and the status was sent
C5_Witness ==
  /\ op.kind = "indexPageIndexed"
  /\ op.event = "alreadyIndexed"
  /\ op.sent = {AlreadyIndexedMsg}
  /\ ~op.contentRequested


\* C13: when the request of /search fails (network error, status not OK,
\* success = false) the reply to the 'search' message is an explicit error and
\* never a list of results.
C13_FailedSearchRepliesError ==
  (op.kind = "searchIndex" /\ op.outcome \in SearchFailures)
    => ("error" \in DOMAIN op.reply /\ "results" \notin DOMAIN op.reply)

MaxScoreOf(results, url) ==
  CHOOSE m \in ResultScores :
    /\ \E i \in 1..Len(results) : results[i].url = url /\ results[i].score = m
    /\ \A i \in 1..Len(results) : results[i].url = url => results[i].score <= m

\* C14: the popup displays each url at most once, the entry shown for a url
\* is its highest-scoring occurrence in the list of the backend, and the
\* entries are in descending order of score.
C14_BestOccurrenceShown ==
  (op.kind = "searchDisplayed" /\ op.outcome = "ok")
    => LET d == op.displayed
       IN  /\ \A i, j \in 1..Len(d) : d[i].url = d[j].url => i = j
           /\ \A i \in 1..Len(d) : d[i].score = MaxScoreOf(op.backendResults, d[i].url)
           /\ \A i \in 1..(Len(d) - 1) : d[i].score >= d[i + 1].score

\* C15: every request of /search the background sends carries the
\* user_context the popup attached to its 'search' message.
C15_RequestCarriesUserContext ==
  op.kind = "searchRequest"
    => /\ "user_context" \in DOMAIN op.request
       /\ op.request.user_context = op.message.user_context

\* C19: when the request of the preferences fails (network error, status not
\* OK, success = false) performSearch still sends the 'search' message, with
\* an empty user_context.
C19_SearchSentWithEmptyContext ==
  (op.kind = "preferences" /\ op.outcome \in PrefsFailures)
    => /\ op.sent
       /\ op.message.action = "search"
       /\ op.message.user_context = EmptyContext

C19_Witness ==
  /\ op.kind = "preferences"
  /\ op.outcome = "httpStatus"
  /\ op.sent
  /\ popup.search.pc = "message"

\* C18: invalid input is rejected before any request or change of state:
\* performSearch with an empty or all-blank query sends no health,
\* preferences or search request and starts no search; indexPage with a
\* missing tab or url sends no backend request and no status message.
C18_InvalidInputRejected ==
  [][/\ \A input \in QueryInputs :
          (PerformSearch(input) /\ \A i \in 1..Len(input) : input[i] = " ")
            => /\ op'.requests = {}
               /\ popup'.search = popup.search
               /\ UNCHANGED searchRest
     /\ \A kind \in {"tab", "message"}, tab \in Tabs :
          (IndexPage(kind, tab) /\ (~tab.present \/ ~tab.hasUrl \/ tab.url = << >>))
            => /\ op'.sent = {}
               /\ op'.event = "invalidTab"
               /\ ~op'.contentRequested /\ ~op'.indexRequested
               /\ UNCHANGED <<runs, indexingInProgress, bgRest>>]_vars

\* a blank query was answered in the result area while an indexPage call
\* waits for /check-indexed
C18_Witness ==
  /\ op.kind = "performSearch"
  /\ op.input = <<" ", " ">>
  /\ popup.search.pc = "idle"
  /\ popup.searchResults.text = "Please enter a search query."
  /\ ActiveRuns > 0

\* an indexPage call with a null tab returned while a search is under way
C18_WitnessTab ==
  /\ op.kind = "indexPage"
  /\ op.event = "invalidTab"
  /\ popup.search.pc = "prefs"



\* C16: the list of available categories always contains 'Others', and the
\* popup never sends a remove request for 'Others' in any letter case.
C16_OthersKept ==
  /\ \E i \in 1..Len(popup.availableCategories) : popup.availableCategories[i] = Others
  /\ (op.kind = "removeCategory" /\ op.event = "requested")
       => op.category \notin {Others, <<"o", "t">>, <<"O", "T">>}

\* the backend's list held 'others' only: 'Others' was added, both are
\* displayed, and a remove request for another category has been sent
C16_Witness ==
  /\ popup.availableCategories = << <<"s">>, <<"o", "t">>, Others >>
  /\ Len(popup.categoryList) = 3
  /\ op.kind = "removeCategory"
  /\ op.event = "requested"
  /\ op.category = <<"s">>



\* C17: after the popup displays the status 'skipped' or 'error', and no
\* further status message arrives, the display eventually resets by itself
\* to idle with the text 'Ready to search'.
C17_StatusResets ==
  \A n \in 0..MaxMessages :
    (popup.received = n /\ popup.status.className \in {"skipped", "error"})
      ~> (popup.status = IdleStatus \/ popup.received # n)

\* the part of C17 about 'skipped', whose branch sets the timer
SkippedStatusResets ==
  \A n \in 0..MaxMessages :
    (popup.received = n /\ popup.status.className = "skipped")
      ~> (popup.status = IdleStatus \/ popup.received # n)



\* C21: updateConfidentialSites(S) replaces the list wholesale: afterwards
\* getConfidentialSites returns exactly S, every later isConfidentialSite
\* check uses S, and loadConfidentialSites after a restart restores S from
\* storage (an empty S stays empty).  Until the load after a restart has
\* run, the list in memory is the empty initial one.
C21_ListReplaced ==
  lastSites # << >>
    => LET S == lastSites[1]
       IN  /\ stSites = <<S>>
           /\ confidentialSites \in {S, << >>}
           /\ op.kind = "getConfidentialSites" => op.sites \in {S, << >>}
           /\ op.kind = "testConfidentialSite"
                => op.result \in {isConfidentialSite(S, op.url),
                                  isConfidentialSite(<< >>, op.url)}



\* C22: while one indexPage run for a url is between its start and its final
\* status, a second indexPage call for the same url sends no second index
\* request: at most one index request of indexPage for a url is under way.
C22_OneIndexRequestPerUrl ==
  \A url \in IndexUrls : runs[Run("tab", "indexing", url)] <= 1



\* C23: indexPage sends the status 'completed' for a url only if the index
\* request for it succeeded; when processPageContent reports a failure
\* (success = false, or a network error) it sends 'error' and not 'completed'.
C23_CompletedOnlyOnSuccess ==
  (op.kind = "indexPage" /\ op.event \in IndexResults)
    => /\ (\E m \in op.sent : m.status = "completed") => op.event = "success"
       /\ op.event = "failure" => \E m \in op.sent : m.status = "error"

CheckFailedMsg == Msg("error", "Error checking if page is indexed")

\* C24 as stated: when the check-indexed request fails, indexPage sends an
\* 'error' status for the url and stops: no page content is requested and no
\* index request is sent for that run.
C24_ErrorAlwaysSent ==
  (op.kind = "indexPage" /\ op.event = "checkFailed")
    => /\ op.sent = {CheckFailedMsg}
       /\ ~op.contentRequested
       /\ ~op.indexRequested

\* C24 amended: when the check-indexed request fails, indexPage sends an
\* 'error' status for the url, except that it sends nothing while the key
\* url-error is in indexingInProgress (an 'error' status for the url was sent
\* within the last second); it sends no other status, requests neither the
\* page content nor an index, and the run ends.
C24_CheckFailureStops ==
  [][\A kind \in {"tab", "message"}, url \in IndexUrls :
       CheckIndexedResponse(kind, url, "failed")
         => /\ op'.sent = IF <<url, "error">> \in indexingInProgress
                          THEN {} ELSE {CheckFailedMsg}
            /\ ~op'.contentRequested
            /\ ~op'.indexRequested
            /\ runs'[Run(kind, "checking", url)] = runs[Run(kind, "checking", url)] - 1
            /\ \A x \in RunStates \ {Run(kind, "checking", url)} : runs'[x] = runs[x]]_vars

\* C24 witness: a check failed, the status was sent and no run is left
C24_Witness ==
  /\ op.kind = "indexPage"
  /\ op.event = "checkFailed"
  /\ op.sent = {CheckFailedMsg}
  /\ ~op.contentRequested
  /\ ActiveRuns = 0



ConfidentialMsg == Msg("skipped", "This is a confidential site")

\* C25: sendIndexingStatus sends at most one message for a pair (url, status)
\* while the key of the pair is in indexingInProgress, and the key is always
\* removed again (by the timer set in the call), so that a later status for
\* the pair is not suppressed forever.
C25_OneMessagePerKey ==
  /\ [][op'.kind \in IndexingKinds
          => \A m \in op'.sent \ {ConfidentialMsg} :
               <<op'.url, m.status>> \notin indexingInProgress]_vars
  /\ \A key \in StatusKeys :
       (key \in indexingInProgress) ~> (key \notin indexingInProgress)

\* C25 witness: a second 'started' for a url was suppressed while the key of
\* the first was in the set
C25_Witness ==
  /\ op.kind = "indexPage"
  /\ op.event = "started"
  /\ op.sent = {}
  /\ <<op.url, "started">> \in indexingInProgress



Elements(seq) == {seq[i] : i \in 1..Len(seq)}

\* C26: a status message whose direct delivery fails is stored, and a popup
\* connection posts the stored messages in stored order and empties the
\* store; under any interleaving no undelivered message is lost (once every
\* callback has run it is stored or was posted) and none is posted twice.
C26_NoneLostNoneTwice ==
  /\ \A i, j \in 1..Len(pending.posted) :
       pending.posted[i] = pending.posted[j] => i = j
  /\ \A i, j \in 1..Len(pending.posted) :
       i < j => pending.posted[i] < pending.posted[j]
  /\ pending.gets = << >>
       => 1..pending.made = Elements(pending.posted) \cup Elements(pending.stored)



\* C27: the notification area never holds more than
\* MAX_VISIBLE_NOTIFICATIONS (3) notifications; when one is added while 3 are
\* shown, the one removed is the oldest and the new one is placed first.
C27_AtMostThreeOldestOut ==
  /\ [](Len(popup.notifications) <= 3)
  /\ [][\A rule \in MessageRules \ {"suppress"} :
          (AddNotification(rule) /\ Len(popup.notifications) = 3)
            => LET old == popup.notifications
                   new == popup'.notifications
                   out == CHOOSE n \in Elements(old) : n \notin Elements(new)
               IN  /\ Len(new) = 3
                   /\ new[1].id = popup'.notified
                   /\ Elements(new) \ {new[1]} \subseteq Elements(old)
                   /\ \A n \in Elements(old) : out.id <= n.id
                   /\ <<new[2], new[3]>> = <<old[1], old[2]>>]_vars

\* C27 witness: the fifth notification was added to a full area: the area
\* holds the fifth, fourth and third
C27_Witness ==
  /\ op.kind = "addNotification"
  /\ Len(popup.notifications) = 3
  /\ popup.notifications[1].id = 5
  /\ popup.notifications[2].id = 4
  /\ popup.notifications[3].id = 3



\* C28: after the settings tab is opened or the popup loads, once the load
\* of the category list and the load of the preferences have both completed,
\* in either order, every saved preferred category that is in the available
\* list has its checkbox checked.
C28_SavedCategoriesChecked ==
  (popup.boxesLoad = "done" /\ popup.prefsLoad = "done")
    => \A i \in 1..Len(popup.checkboxes) :
         popup.checkboxes[i].value \in Elements(popup.prefsCategories)
           => popup.checkboxes[i].checked



\* C29: with highlighting enabled and a pending highlight text stored, the
\* content script reaches a quiescent state: once highlightText has applied
\* the highlights, the mutations it causes itself do not trigger it again
\* and again through the MutationObserver and getPendingHighlight.
C29_HighlightQuiesces ==
  <>[](contentPage.started /\ contentPage.highlightEnabled
         /\ contentPage.pendingHighlight)
    => <>[](~contentPage.observer /\ contentPage.requests = 0
              /\ contentPage.reads = 0)

\* C30: no page whose url matches a stored or default confidential pattern
\* is sent to the backend, also when the indexing attempt (tab event,
\* 'indexPage' or 'processPage' message) arrives before initializeExtension
\* has finished loadConfidentialSites: the check is never evaluated against
\* the list that is not loaded yet.
C30_NoConfidentialPageSent ==
  (op.kind \in {"indexPage", "processPage"} /\ op.indexRequested)
    => ~isConfidentialSite(LoadedList, op.url).isConfidential


============================================================================
